---- MODULE Spec2Model ----
(***************************************************************************)
(* Verification model of reference_checker.py: citation-style detection,   *)
(* reference-section extraction, reference segmentation and parsing,       *)
(* in-text citation extraction and citation/reference matching.            *)
(*                                                                         *)
(* Text is modelled at character level: a string is a sequence of          *)
(* one-character strings, and every regular expression of the source is a  *)
(* value (Chr, Cat, Alt, Rep, ...) interpreted by one backtracking matcher *)
(* with Python's priorities (leftmost match, ordered alternation, greedy   *)
(* and lazy repetition).  The character U+201C is written LDQ, U+201D RDQ  *)
(* and U+2013 NDASH.                                                        *)
(***************************************************************************)
EXTENDS Integers, Sequences, FiniteSets, TLC

\* ------------------------------------------------------------------------
\* Characters and character classes (Python re: \d \s \w [A-Z] [a-z])
\* ------------------------------------------------------------------------
UpperSeq == <<"A","B","C","D","E","F","G","H","I","J","K","L","M",
              "N","O","P","Q","R","S","T","U","V","W","X","Y","Z">>

LowerSeq == <<"a","b","c","d","e","f","g","h","i","j","k","l","m",
              "n","o","p","q","r","s","t","u","v","w","x","y","z">>

Upper == {UpperSeq[k] : k \in 1..26}

Lower == {LowerSeq[k] : k \in 1..26}

Digit == {"0","1","2","3","4","5","6","7","8","9"}

Space == {" ", "\t"}

Alpha == Upper \cup Lower

WordCh == Alpha \cup Digit \cup {"_"}

LDQ == "LDQ"

RDQ == "RDQ"

NDASH == "NDASH"

ToLowerMap == [c \in Upper |-> LowerSeq[CHOOSE k \in 1..26 : UpperSeq[k] = c]]

ToUpperMap == [c \in Lower |-> UpperSeq[CHOOSE k \in 1..26 : LowerSeq[k] = c]]

LowerCh(c) == IF c \in Upper THEN ToLowerMap[c] ELSE c

\* both cases of every letter of S (a character class under re.IGNORECASE)
AnyCase(S) == S \cup {ToLowerMap[c] : c \in S \cap Upper}
                \cup {ToUpperMap[c] : c \in S \cap Lower}

\* ------------------------------------------------------------------------
\* Python str operations.  Recursion is kept away from the length of a
\* string: positions are found by quantifying over the indices.
\* ------------------------------------------------------------------------
Min(a, b) == IF a < b THEN a ELSE b

Max(a, b) == IF a > b THEN a ELSE b

MinOf(S) == CHOOSE x \in S : \A y \in S : x <= y

MaxOf(S) == CHOOSE x \in S : \A y \in S : x >= y

\* the least element of S, d when S is empty
FirstOf(S, d) == IF S = {} THEN d ELSE MinOf(S)

\* the greatest element of S, d when S is empty
LastOf(S, d) == IF S = {} THEN d ELSE MaxOf(S)

\* the sequence f, with its elements computed once
AsSeq(f) == f \o << >>

\* s[a-1:b] of Python for 1-based inclusive a..b (empty when a > b)
Slice(s, a, b) == IF a > b THEN << >> ELSE SubSeq(s, a, b)

\* str.lower()
StrLower(s) == AsSeq([k \in 1..Len(s) |-> LowerCh(s[k])])

\* [x.lower() for x in q]
LowerAll(q) == AsSeq([k \in 1..Len(q) |-> StrLower(q[k])])

\* str.lstrip(S), str.rstrip(S) for a set of characters S
LStripSet(s, S) ==
    LET keep == {k \in 1..Len(s) : s[k] \notin S}
    IN IF keep = {} THEN << >> ELSE SubSeq(s, MinOf(keep), Len(s))

RStripSet(s, S) ==
    LET keep == {k \in 1..Len(s) : s[k] \notin S}
    IN IF keep = {} THEN << >> ELSE SubSeq(s, 1, MaxOf(keep))

\* str.strip()
Strip(s) == RStripSet(LStripSet(s, Space), Space)

\* [x.strip() for x in q]
StripAll(q) == AsSeq([k \in 1..Len(q) |-> Strip(q[k])])

\* str.startswith(p)
StartsWith(s, p) == Len(s) >= Len(p) /\ SubSeq(s, 1, Len(p)) = p

\* the 1-based indices where p occurs in s
Occurrences(s, p) == {k \in 1..(Len(s) - Len(p) + 1) : SubSeq(s, k, k + Len(p) - 1) = p}

\* str.find(p) + 1  (0 when Python returns -1)
Find(s, p) == IF Occurrences(s, p) = {} THEN 0 ELSE MinOf(Occurrences(s, p))

\* str.rfind(p) + 1
RFind(s, p) == IF Occurrences(s, p) = {} THEN 0 ELSE MaxOf(Occurrences(s, p))

\* p in s
Contains(s, p) == Occurrences(s, p) # {}

\* sep.join(parts)
RECURSIVE Join(_, _)
Join(parts, sep) ==
    IF parts = << >> THEN << >>
    ELSE IF Len(parts) = 1 THEN parts[1]
    ELSE parts[1] \o sep \o Join(Tail(parts), sep)

\* str.split(c) for a one-character separator c: the pieces between the
\* occurrences of c, empty pieces included
SplitChar(s, c) ==
    LET cuts == {k \in 1..Len(s) : s[k] = c}
        n == Cardinality(cuts)
        \* the position of the j-th separator; 0 and Len(s) + 1 bound the string
        cut(j) == IF j = 0 THEN 0
                  ELSE IF j = n + 1 THEN Len(s) + 1
                  ELSE CHOOSE k \in cuts : Cardinality({m \in cuts : m < k}) = j - 1
    IN AsSeq([j \in 1..(n + 1) |-> Slice(s, cut(j - 1) + 1, cut(j) - 1)])

\* str.split(): the maximal runs of non-whitespace characters
Words(s) ==
    LET starts == {k \in 1..Len(s) : s[k] \notin Space /\ (k = 1 \/ s[k - 1] \in Space)}
        endOf(a) == MinOf({k \in a..Len(s) : k = Len(s) \/ s[k + 1] \in Space})
    IN AsSeq([j \in 1..Cardinality(starts) |->
                LET a == CHOOSE k \in starts : Cardinality({m \in starts : m < k}) = j - 1
                IN SubSeq(s, a, endOf(a))])

\* the first word of s, '' when s has no word
FirstWordOrEmpty(s) == IF Words(s) = << >> THEN << >> ELSE Words(s)[1]

SeqRange(q) == {q[k] : k \in 1..Len(q)}

\* the concatenation of the sequences qs[1], qs[2], ...
RECURSIVE FlattenFrom(_, _, _)
FlattenFrom(qs, k, acc) ==
    IF k > Len(qs) THEN acc ELSE FlattenFrom(qs, k + 1, acc \o qs[k])

Flatten(qs) == FlattenFrom(qs, 1, << >>)

\* the elements of q at the positions I, in order
Pick(q, I) ==
    AsSeq([k \in 1..Cardinality(I) |->
             q[CHOOSE i \in I : Cardinality({m \in I : m < i}) = k - 1]])

\* q with each value kept at its first occurrence only
Dedup(q) == Pick(q, {k \in 1..Len(q) : \A m \in 1..(k - 1) : q[m] # q[k]})

\* the concatenation of F(q[1]), F(q[2]), ... in this order, each value kept
\* at its first occurrence only
FlatMap(q, F(_)) ==
    IF Len(q) = 0 THEN << >>
    ELSE IF Len(q) = 1 THEN F(q[1])
    ELSE Dedup(Flatten(AsSeq([j \in 1..Len(q) |-> F(q[j])])))

\* Python's None, and the truth value of an optional string
None == <<"None">>

Truthy(x) == x # None /\ x # << >>

\* ------------------------------------------------------------------------
\* Regular expressions as values, and Python's backtracking matcher
\* ------------------------------------------------------------------------
Inf == -1

Chr(S) == [t |-> "chr", s |-> S]

NotChr(S) == [t |-> "nchr", s |-> S]

AnyCh == [t |-> "any"]

Lit(p) == [t |-> "lit", p |-> p]

\* a literal under re.IGNORECASE
LitI(p) == [t |-> "liti", p |-> StrLower(p)]

Cat(rs) == [t |-> "cat", rs |-> rs]

Alt(rs) == [t |-> "alt", rs |-> rs]

\* r{lo,hi} greedy; hi = Inf for no upper limit
Rep(r, lo, hi) == [t |-> "rep", r |-> r, lo |-> lo, hi |-> hi, greedy |-> TRUE]

\* r{lo,hi}? lazy
RepLazy(r, lo, hi) == [t |-> "rep", r |-> r, lo |-> lo, hi |-> hi, greedy |-> FALSE]

Star(r) == Rep(r, 0, Inf)

Plus(r) == Rep(r, 1, Inf)

Opt(r) == Rep(r, 0, 1)

\* capturing group number n
Grp(n, r) == [t |-> "grp", n |-> n, r |-> r]

Bol == [t |-> "bol"]

Eol == [t |-> "eol"]

\* \b
Wb == [t |-> "wb"]

\* (?=r)
Ahead(r) == [t |-> "ahead", r |-> r]

MaxGroups == 3

NoCaps == [n \in 1..MaxGroups |-> <<0, 0>>]

IsOneChar(r) == r.t \in {"chr", "nchr", "any"}

OneCharOk(r, c) ==
    CASE r.t = "chr" -> c \in r.s
      [] r.t = "nchr" -> c \notin r.s
      [] OTHER -> TRUE

\* the length of the longest run of characters matching r from position i, at most hi
RunLen(r, s, i, hi) ==
    LET stops == {k \in i..Len(s) : ~OneCharOk(r, s[k])}
        n == IF stops = {} THEN Len(s) + 1 - i ELSE MinOf(stops) - i
    IN IF hi = Inf THEN n ELSE Min(n, hi)

IsWordAt(s, i) == i >= 1 /\ i <= Len(s) /\ s[i] \in WordCh

\* A matcher state is [pos, caps, tag]: pos the next character to read, caps
\* the groups captured so far, tag the bookkeeping of the repetitions being
\* matched.  Run(r, s, outs) is the sequence of states in which r can end
\* when started in the states outs, in Python's order of preference (what
\* the backtracking matcher tries first comes first).
RECURSIVE Run(_, _, _)
RECURSIVE RunCat(_, _, _)
RECURSIVE RepRounds(_, _, _, _)
\* the states after one more iteration of r from the states cur: an
\* iteration that reads nothing ends the loop, and of two equal states the
\* preferred one is kept.  key is the path of the state in the tree of
\* iterations, from the position the iteration started at.
NamedKids(kids) ==
    LET first == {k \in 1..Len(kids) :
                     \A m \in 1..(k - 1) :
                        kids[m].pos # kids[k].pos \/ kids[m].caps # kids[k].caps}
        named == AsSeq([k \in 1..Len(kids) |->
                          [kids[k] EXCEPT !.tag.key = Append(@, k), !.tag.from = kids[k].pos]])
    IN SelectSeq(named, LAMBDA c : c.tag.key[Len(c.tag.key)] \in first)

NextRound(r, s, cur) == NamedKids(SelectSeq(Run(r, s, cur), LAMBDA c : c.pos > c.tag.from))

\* acc[k + 1] is the sequence of states after k iterations of r.r
RepRounds(r, s, cur, acc) ==
    IF Len(acc) - 1 = r.hi \/ cur = << >> THEN acc
    ELSE RepRounds(r, s, NextRound(r.r, s, cur), Append(acc, cur))

\* the backtracking order of two states of a repetition: the first
\* difference of their paths decides; of a state and one reached from it by
\* more iterations, a greedy repetition prefers the longer path
RepBefore(a, b, greedy) ==
    LET n == Min(Len(a.tag.key), Len(b.tag.key))
        diff == {i \in 1..n : a.tag.key[i] # b.tag.key[i]}
    IN IF diff # {} THEN a.tag.key[MinOf(diff)] < b.tag.key[MinOf(diff)]
       ELSE IF greedy THEN Len(a.tag.key) > Len(b.tag.key)
       ELSE Len(a.tag.key) < Len(b.tag.key)

\* the repetition r (not of a single character) from the states outs
\* the states after r.lo or more iterations, in the backtracking order;
\* rounds[k + 1] is the sequence of states after k iterations
RepEnds(r, rounds) ==
    LET ends == UNION {{<<k, j>> : j \in 1..Len(rounds[k])} : k \in (r.lo + 1)..Len(rounds)}
        St(e) == rounds[e[1]][e[2]]
    IN AsSeq([k \in 1..Cardinality(ends) |->
                LET e == CHOOSE e \in ends :
                            Cardinality({d \in ends : RepBefore(St(d), St(e), r.greedy)}) = k - 1
                IN [St(e) EXCEPT !.tag = @.up]])

\* the states outs as the roots of the tree of iterations
RepRoot(outs) ==
    AsSeq([j \in 1..Len(outs) |->
             [outs[j] EXCEPT !.tag = [up |-> outs[j].tag, key |-> <<j>>, from |-> outs[j].pos]]])

RunRepFrom(r, s, root) == RepEnds(r, RepRounds(r, s, NextRound(r.r, s, root), <<root>>))

RunRep(r, s, outs) == RunRepFrom(r, s, RepRoot(outs))

Run(r, s, outs) ==
    IF outs = << >> THEN << >>
    ELSE CASE IsOneChar(r) ->
                LET f == SelectSeq(outs, LAMBDA o : o.pos <= Len(s) /\ OneCharOk(r, s[o.pos]))
                IN AsSeq([k \in 1..Len(f) |-> [f[k] EXCEPT !.pos = @ + 1]])
           [] r.t = "lit" ->
                LET f == SelectSeq(outs, LAMBDA o :
                             o.pos + Len(r.p) - 1 <= Len(s)
                             /\ SubSeq(s, o.pos, o.pos + Len(r.p) - 1) = r.p)
                IN AsSeq([k \in 1..Len(f) |-> [f[k] EXCEPT !.pos = @ + Len(r.p)]])
           [] r.t = "liti" ->
                LET f == SelectSeq(outs, LAMBDA o :
                             o.pos + Len(r.p) - 1 <= Len(s)
                             /\ StrLower(SubSeq(s, o.pos, o.pos + Len(r.p) - 1)) = r.p)
                IN AsSeq([k \in 1..Len(f) |-> [f[k] EXCEPT !.pos = @ + Len(r.p)]])
           [] r.t = "bol" -> SelectSeq(outs, LAMBDA o : o.pos = 1)
           [] r.t = "eol" -> SelectSeq(outs, LAMBDA o : o.pos = Len(s) + 1)
           [] r.t = "wb" ->
                SelectSeq(outs, LAMBDA o : IsWordAt(s, o.pos - 1) # IsWordAt(s, o.pos))
           [] r.t = "ahead" -> SelectSeq(outs, LAMBDA o : Run(r.r, s, <<o>>) # << >>)
           [] r.t = "cat" -> RunCat(r.rs, s, outs)
           [] r.t = "alt" ->
                FlatMap(outs, LAMBDA o :
                    FlatMap(AsSeq([b \in 1..Len(r.rs) |-> b]), LAMBDA b : Run(r.rs[b], s, <<o>>)))
           [] r.t = "grp" ->
                LET opened == AsSeq([k \in 1..Len(outs) |->
                                        [outs[k] EXCEPT !.caps[r.n] = <<outs[k].pos, 0>>]])
                    inner == Run(r.r, s, opened)
                IN AsSeq([k \in 1..Len(inner) |->
                            [inner[k] EXCEPT !.caps[r.n] = <<@[1], inner[k].pos>>]])
           [] r.t = "rep" ->
                IF IsOneChar(r.r)
                THEN FlatMap(outs, LAMBDA o :
                         LET n == RunLen(r.r, s, o.pos, r.hi)
                         IN IF n < r.lo THEN << >>
                            ELSE AsSeq([k \in 1..(n - r.lo + 1) |->
                                          [o EXCEPT !.pos = IF r.greedy THEN @ + n - k + 1
                                                            ELSE @ + r.lo + k - 1]]))
                ELSE RunRep(r, s, outs)

RunCat(rs, s, outs) ==
    IF rs = << >> \/ outs = << >> THEN outs
    ELSE RunCat(Tail(rs), s, Run(Head(rs), s, outs))

NoMatch == [ok |-> FALSE, start |-> 0, pos |-> 0, caps |-> NoCaps]

\* the match of r on s that starts at position i, NoMatch when there is none
Preferred(outs, i) ==
    IF outs = << >> THEN NoMatch
    ELSE [ok |-> TRUE, start |-> i, pos |-> outs[1].pos, caps |-> outs[1].caps]

MatchAt(r, s, i) == Preferred(Run(r, s, <<[pos |-> i, caps |-> NoCaps, tag |-> << >>]>>), i)

\* re.match(r, s): a match that starts at the first character
ReMatch(r, s) == MatchAt(r, s, 1)

\* the match of r at every position of s
MatchTable(r, s) == AsSeq([i \in 1..(Len(s) + 1) |-> MatchAt(r, s, i)])

\* the leftmost match of the table that starts at position `from` or later
SearchIn(table, from) ==
    LET starts == {i \in from..Len(table) : table[i].ok}
    IN IF starts = {} THEN NoMatch ELSE table[MinOf(starts)]

\* re.search(r, s)
ReSearch(r, s) == SearchIn(MatchTable(r, s), 1)

\* bool(re.search(r, s))
Found(r, s) == \E i \in 1..(Len(s) + 1) : MatchAt(r, s, i).ok

\* re.finditer(r, s): the non-overlapping matches from left to right
RECURSIVE FindIterFrom(_, _, _)
FindIterFrom(table, from, acc) ==
    LET m == SearchIn(table, from)
    IN IF ~m.ok THEN acc
       ELSE FindIterFrom(table, IF m.pos = m.start THEN m.pos + 1 ELSE m.pos, Append(acc, m))

ReFindIter(r, s) == FindIterFrom(MatchTable(r, s), 1, << >>)

\* re.sub(r, repl, s) for a replacement without group references and a
\* pattern that matches no empty string
Replaced(ms, repl, s) ==
    LET \* the text kept before the k-th match, and after the last one
        Kept(k) == Slice(s, IF k = 1 THEN 1 ELSE ms[k - 1].pos,
                            IF k > Len(ms) THEN Len(s) ELSE ms[k].start - 1)
    IN Flatten(AsSeq([j \in 1..(2 * Len(ms) + 1) |->
                        IF j % 2 = 1 THEN Kept((j + 1) \div 2) ELSE repl]))

ReSub(r, repl, s) == Replaced(ReFindIter(r, s), repl, s)

\* match.group(n) of a successful match m on s
Group(m, s, n) == Slice(s, m.caps[n][1], m.caps[n][2] - 1)

\* match.group(0)
Group0(m, s) == Slice(s, m.start, m.pos - 1)

\* 'm.group(0) if m else None'
Group0OrNone(m, s) == IF m.ok THEN Group0(m, s) ELSE None

\* ------------------------------------------------------------------------
\* The regular expressions of reference_checker.py, by source line
\* ------------------------------------------------------------------------
\* lines 343, 461, 514: r'^references?\s*$'
HeaderReferencesRe ==
    Cat(<<
      Bol, Lit(<<"r","e","f","e","r","e","n","c","e">>), Opt(Chr({"s"})),
      Star(Chr(Space)), Eol>>)

\* lines 346, 461, 514: r'^works\s+cited\s*$'
HeaderWorksCitedRe ==
    Cat(<<
      Bol, Lit(<<"w","o","r","k","s">>), Plus(Chr(Space)), Lit(<<"c","i","t","e","d">>),
      Star(Chr(Space)), Eol>>)

\* line 392: r'\([A-Z][a-z]+(?:\s+et al\.)?,\s*\d{4}\)'
ApaBodyCiteRe ==
    Cat(<<
      Chr({"("}), Chr(Upper), Plus(Chr(Lower)),
      Opt(Cat(<<Plus(Chr(Space)), Lit(<<"e","t"," ","a","l",".">>)>>)), Chr({","}),
      Star(Chr(Space)), Rep(Chr(Digit), 4, 4), Chr({")"})>>)

\* line 395: r'\([A-Z][a-z]+\s+\d{1,4}(?:-\d{1,4})?\)'
MlaBodyCiteRe ==
    Cat(<<
      Chr({"("}), Chr(Upper), Plus(Chr(Lower)), Plus(Chr(Space)), Rep(Chr(Digit), 1, 4),
      Opt(Cat(<<Chr({"-"}), Rep(Chr(Digit), 1, 4)>>)), Chr({")"})>>)

\* line 471: r'^appendix|^appendices|^figure\s*\d|^table\s*\d'
SectionEndRe ==
    Cat(<<
      Bol,
      Alt(<<
        Lit(<<"a","p","p","e","n","d","i","x">>),
        Lit(<<"a","p","p","e","n","d","i","c","e","s">>),
        Cat(<<Lit(<<"f","i","g","u","r","e">>), Star(Chr(Space)), Chr(Digit)>>),
        Cat(<<Lit(<<"t","a","b","l","e">>), Star(Chr(Space)), Chr(Digit)>>)>>)>>)

\* line 552: r'\s+and\s+.*' (re.IGNORECASE)
AndTailRe == Cat(<<Plus(Chr(Space)), LitI(<<"a","n","d">>), Plus(Chr(Space)), Star(AnyCh)>>)

\* line 589, author_pattern: r'[A-Z][A-Za-z\-\']+(?:\s+(?:of|the|for|and|in|on|at|to|a|an|from)\s+[A-Z][A-Za-z\-\']+|\s+[A-Z][A-Za-z\-\']+)*'
ApaAuthorPattern ==
    Cat(<<
      Chr(Upper), Plus(Chr(Upper \cup Lower \cup {"-", "'"})),
      Rep(
        Alt(<<
          Cat(<<
            Plus(Chr(Space)),
            Alt(<<
              Lit(<<"o","f">>), Lit(<<"t","h","e">>), Lit(<<"f","o","r">>),
              Lit(<<"a","n","d">>), Lit(<<"i","n">>), Lit(<<"o","n">>), Lit(<<"a","t">>),
              Lit(<<"t","o">>), Chr({"a"}), Lit(<<"a","n">>), Lit(<<"f","r","o","m">>)>>),
            Plus(Chr(Space)), Chr(Upper), Plus(Chr(Upper \cup Lower \cup {"-", "'"}))>>),
          Cat(<<Plus(Chr(Space)), Chr(Upper), Plus(Chr(Upper \cup Lower \cup {"-", "'"}))>>)>>),
        0, Inf)>>)

\* lines 590, 608, 616: the optional second part of a citation author: r'(?:\s+et al\.|\s+(?:and|&)\s+(?:colleagues|co-workers)|\s+(?:&|and)\s+{ApaAuthorPattern})?'
CiteTailPattern ==
    Rep(
      Alt(<<
        Cat(<<Plus(Chr(Space)), Lit(<<"e","t"," ","a","l",".">>)>>),
        Cat(<<
          Plus(Chr(Space)), Alt(<<Lit(<<"a","n","d">>), Chr({"&"})>>), Plus(Chr(Space)),
          Lit(<<"c","o">>),
          Alt(<<
            Lit(<<"l","l","e","a","g","u","e","s">>),
            Lit(<<"-","w","o","r","k","e","r","s">>)>>)>>),
        Cat(<<
          Plus(Chr(Space)), Alt(<<Chr({"&"}), Lit(<<"a","n","d">>)>>), Plus(Chr(Space)),
          ApaAuthorPattern>>)>>),
      0, 1)

\* line 590, paren_pattern: r'\((?:(?:e\.g\.,|cf\.|see|see e\.g\.,|see for example,?|see also):?\s*)?({ApaAuthorPattern}{CiteTailPattern}),?\s+((?:19|20)\d{2}[a-z]?)\)'
ApaParenPattern ==
    Cat(<<
      Chr({"("}),
      Rep(
        Cat(<<
          Alt(<<
            Lit(<<"e",".","g",".",",">>), Lit(<<"c","f",".">>), Lit(<<"s","e","e">>),
            Lit(<<"s","e","e"," ","e",".","g",".",",">>),
            Cat(<<
              Lit(<<"s","e","e"," ","f","o","r"," ","e","x","a","m","p","l","e">>),
              Opt(Chr({","}))>>),
            Lit(<<"s","e","e"," ","a","l","s","o">>)>>),
          Opt(Chr({":"})), Star(Chr(Space))>>),
        0, 1),
      Grp(1, Cat(<<ApaAuthorPattern, CiteTailPattern>>)), Opt(Chr({","})),
      Plus(Chr(Space)),
      Grp(2,
        Cat(<<
          Alt(<<Lit(<<"1","9">>), Lit(<<"2","0">>)>>), Rep(Chr(Digit), 2, 2),
          Opt(Chr(Lower))>>)),
      Chr({")"})>>)

\* line 598, multi_paren_pattern: r'\(([^)]+)\)'
MultiParenPattern == Cat(<<Chr({"("}), Grp(1, Plus(NotChr({")"}))), Chr({")"})>>)

\* line 604: r'^(?:e\.g\.,|cf\.|see|see e\.g\.,|see for example,?|see also):?\s*' (re.IGNORECASE)
CitePrefixRe ==
    Cat(<<
      Bol,
      Alt(<<
        LitI(<<"e",".","g",".",",">>), LitI(<<"c","f",".">>), LitI(<<"s","e","e">>),
        LitI(<<"s","e","e"," ","e",".","g",".",",">>),
        Cat(<<
          LitI(<<"s","e","e"," ","f","o","r"," ","e","x","a","m","p","l","e">>),
          Opt(Chr({","}))>>),
        LitI(<<"s","e","e"," ","a","l","s","o">>)>>),
      Opt(Chr({":"})), Star(Chr(Space))>>)

\* line 608, sub_pattern: r'({ApaAuthorPattern}{CiteTailPattern}),?\s+((?:19|20)\d{2}[a-z]?)'
ApaSubPattern ==
    Cat(<<
      Grp(1, Cat(<<ApaAuthorPattern, CiteTailPattern>>)), Opt(Chr({","})),
      Plus(Chr(Space)),
      Grp(2,
        Cat(<<
          Alt(<<Lit(<<"1","9">>), Lit(<<"2","0">>)>>), Rep(Chr(Digit), 2, 2),
          Opt(Chr(Lower))>>))>>)

\* line 616, narrative_pattern: r'({ApaAuthorPattern}{CiteTailPattern})\s+\(((?:19|20)\d{2}[a-z]?)\)'
ApaNarrativePattern ==
    Cat(<<
      Grp(1, Cat(<<ApaAuthorPattern, CiteTailPattern>>)), Plus(Chr(Space)), Chr({"("}),
      Grp(2,
        Cat(<<
          Alt(<<Lit(<<"1","9">>), Lit(<<"2","0">>)>>), Rep(Chr(Digit), 2, 2),
          Opt(Chr(Lower))>>)),
      Chr({")"})>>)

\* line 627, author_pattern: r'[A-Z][A-Za-z\-\']+'
MlaAuthorPattern == Cat(<<Chr(Upper), Plus(Chr(Upper \cup Lower \cup {"-", "'"}))>>)

\* line 630, paren_with_page: r'\(({MlaAuthorPattern}(?:\s+et al\.)?)\s+(\d{1,4}(?:-\d{1,4})?)\)'
MlaParenWithPage ==
    Cat(<<
      Chr({"("}),
      Grp(1,
        Cat(<<
          MlaAuthorPattern,
          Opt(Cat(<<Plus(Chr(Space)), Lit(<<"e","t"," ","a","l",".">>)>>))>>)),
      Plus(Chr(Space)),
      Grp(2,
        Cat(<<Rep(Chr(Digit), 1, 4), Opt(Cat(<<Chr({"-"}), Rep(Chr(Digit), 1, 4)>>))>>)),
      Chr({")"})>>)

\* line 637, paren_no_page: r'\(({MlaAuthorPattern}(?:\s+et al\.)?)\)'
MlaParenNoPage ==
    Cat(<<
      Chr({"("}),
      Grp(1,
        Cat(<<
          MlaAuthorPattern,
          Opt(Cat(<<Plus(Chr(Space)), Lit(<<"e","t"," ","a","l",".">>)>>))>>)),
      Chr({")"})>>)

\* lines 659, 1146, 1266: r'\b(19|20)\d{2}\b'
NearbyYearRe ==
    Cat(<<
      Wb, Grp(1, Alt(<<Lit(<<"1","9">>), Lit(<<"2","0">>)>>)), Rep(Chr(Digit), 2, 2), Wb>>)

\* line 699: r'\([^)]*\)'
ParenTextRe == Cat(<<Chr({"("}), Star(NotChr({")"})), Chr({")"})>>)

\* lines 702, 744: r'\s+et\s+al\.?' (re.IGNORECASE)
EtAlRe ==
    Cat(<<
      Plus(Chr(Space)), LitI(<<"e","t">>), Plus(Chr(Space)), LitI(<<"a","l">>),
      Opt(Chr({"."}))>>)

\* lines 706, 748: r'\s+&\s+|\s+and\s+' (re.IGNORECASE)
AuthorSepRe ==
    Alt(<<
      Cat(<<Plus(Chr(Space)), Chr({"&"}), Plus(Chr(Space))>>),
      Cat(<<Plus(Chr(Space)), LitI(<<"a","n","d">>), Plus(Chr(Space))>>)>>)

\* line 717: r'(?:^|[\s,])[A-Z]\.?(?=[\s,]|$)'
InitialRe ==
    Cat(<<
      Alt(<<Bol, Chr(Space \cup {","})>>), Chr(Upper), Opt(Chr({"."})),
      Ahead(Alt(<<Chr(Space \cup {","}), Eol>>))>>)

\* line 720: r'[,.\']'
NamePunctRe == Chr({",", ".", "'"})

\* line 745: r'\s+(?:and|&)\s+(?:colleagues|co-workers)' (re.IGNORECASE)
ColleaguesRe ==
    Cat(<<
      Plus(Chr(Space)), Alt(<<LitI(<<"a","n","d">>), Chr({"&"})>>), Plus(Chr(Space)),
      LitI(<<"c","o">>),
      Alt(<<
        LitI(<<"l","l","e","a","g","u","e","s">>),
        LitI(<<"-","w","o","r","k","e","r","s">>)>>)>>)

\* line 761: r'[a-z]$'
YearSuffixRe == Cat(<<Chr(Lower), Eol>>)

\* line 945: r'^[A-Z][a-z]+\s+\d+$'
MlaPageHeaderRe ==
    Cat(<<Bol, Chr(Upper), Plus(Chr(Lower)), Plus(Chr(Space)), Plus(Chr(Digit)), Eol>>)

\* line 960: r'(\.(?:com|org|edu|gov|net)/[^\s]*\.?|\.(?:htm|html|pdf|asp|aspx|php|jsp)\s*\.?|\.)\s+([A-Z][a-zA-Z]{2,},\s+[A-Z][a-zA-Z]{2,})'
MlaMidLineRe ==
    Cat(<<
      Grp(1,
        Cat(<<
          Chr({"."}),
          Alt(<<
            Cat(<<
              Alt(<<
                Lit(<<"c","o","m">>), Lit(<<"o","r","g">>), Lit(<<"e","d","u">>),
                Lit(<<"g","o","v">>), Lit(<<"n","e","t">>)>>),
              Chr({"/"}), Star(NotChr(Space)), Opt(Chr({"."}))>>),
            Cat(<<
              Alt(<<
                Lit(<<"h","t","m">>), Lit(<<"h","t","m","l">>), Lit(<<"p","d","f">>),
                Lit(<<"a","s","p">>), Lit(<<"a","s","p","x">>), Lit(<<"p","h","p">>),
                Lit(<<"j","s","p">>)>>),
              Star(Chr(Space)), Opt(Chr({"."}))>>),
            Cat(<<>>)>>)>>)),
      Plus(Chr(Space)),
      Grp(2,
        Cat(<<
          Chr(Upper), Rep(Chr(Lower \cup Upper), 2, Inf), Chr({","}), Plus(Chr(Space)),
          Chr(Upper), Rep(Chr(Lower \cup Upper), 2, Inf)>>))>>)

\* line 971: r'\s[A-Z]\.\s*$'
MiddleInitialRe == Cat(<<Chr(Space), Chr(Upper), Chr({"."}), Star(Chr(Space)), Eol>>)

\* line 1095: r'(/)\s+([A-Z][a-zA-Z\-\']+,\s+[A-Z]\.(?:\s+[A-Z]\.)?)'
ApaMidLineRe ==
    Cat(<<
      Grp(1, Chr({"/"})), Plus(Chr(Space)),
      Grp(2,
        Cat(<<
          Chr(Upper), Plus(Chr(Lower \cup Upper \cup {"-", "'"})), Chr({","}),
          Plus(Chr(Space)), Chr(Upper), Chr({"."}),
          Opt(Cat(<<Plus(Chr(Space)), Chr(Upper), Chr({"."})>>))>>))>>)

\* lines 1109, 1143: r'\(\d{4}[a-z]?\)'
ParenYearRe == Cat(<<Chr({"("}), Rep(Chr(Digit), 4, 4), Opt(Chr(Lower)), Chr({")"})>>)

\* line 1138: r'^[A-Z]'
StartsUpperRe == Cat(<<Bol, Chr(Upper)>>)

\* line 1146: r'[,\.]'
CommaOrPeriodRe == Chr({",", "."})

\* lines 1223, 1303: r'vol\.\s*\d+'
VolRe == Cat(<<Lit(<<"v","o","l",".">>), Star(Chr(Space)), Plus(Chr(Digit))>>)

\* lines 1236, 1317: r'(10\.\d{4,}/[^\s]+)'
DoiRe ==
    Grp(1,
      Cat(<<
        Lit(<<"1","0",".">>), Rep(Chr(Digit), 4, Inf), Chr({"/"}), Plus(NotChr(Space))>>))

\* line 1250: r'^([^"]+?)\.\s+["\"]'
MlaAuthorQuoteRe ==
    Cat(<<
      Bol, Grp(1, RepLazy(NotChr({"\""}), 1, Inf)), Chr({"."}), Plus(Chr(Space)),
      Chr({"\""})>>)

\* line 1260: r'["\u201c]([^"\u201d]+)["\u201d]'
MlaTitleRe == Cat(<<Chr({"\"", LDQ}), Grp(1, Plus(NotChr({"\"", RDQ}))), Chr({"\"", RDQ})>>)

\* lines 1303, 1313: r'\d+\(\d+\)'
VolIssueRe == Cat(<<Plus(Chr(Digit)), Chr({"("}), Plus(Chr(Digit)), Chr({")"})>>)

\* line 1322: r'\((\d{4})[a-z]?\)'
ApaYearRe == Cat(<<Chr({"("}), Grp(1, Rep(Chr(Digit), 4, 4)), Opt(Chr(Lower)), Chr({")"})>>)

\* line 1326: r'\b(19|20)(\d{2})\b'
BareYearRe ==
    Cat(<<
      Wb, Grp(1, Alt(<<Lit(<<"1","9">>), Lit(<<"2","0">>)>>)),
      Grp(2, Rep(Chr(Digit), 2, 2)), Wb>>)

\* line 1335: r'[\(\.,\s]+$'
AuthorsTrailRe == Cat(<<Plus(Chr(Space \cup {"(", ".", ","})), Eol>>)

\* line 1340: r'\(\d{4}[a-z]?\)\.\s*'
YearDotRe ==
    Cat(<<
      Chr({"("}), Rep(Chr(Digit), 4, 4), Opt(Chr(Lower)), Lit(<<")",".">>),
      Star(Chr(Space))>>)

\* line 1343: r'^([^\.]+\.)'
ApaTitleRe == Cat(<<Bol, Grp(1, Cat(<<Plus(NotChr({"."})), Chr({"."})>>))>>)

\* line 1348: r'["\u201c](.+)["\u201d][,\.]'
QuotedTitleRe ==
    Cat(<<Chr({"\"", LDQ}), Grp(1, Plus(AnyCh)), Chr({"\"", RDQ}), Chr({",", "."})>>)

\* line 1352: r'["\u201c]([^"\u201c]{10,})["\u201d]'
QuotedLongRe ==
    Cat(<<Chr({"\"", LDQ}), Grp(1, Rep(NotChr({"\"", LDQ}), 10, Inf)), Chr({"\"", RDQ})>>)

\* line 648, after the last name: r'\s+(?:argues|states|suggests|notes|writes|demonstrates|shows|finds|claims|asserts|observes|explains|contends|believes|maintains)' (re.IGNORECASE)
NarrativeVerbsRe ==
    Cat(<<
      Plus(Chr(Space)),
      Alt(<<
        LitI(<<"a","r","g","u","e","s">>), LitI(<<"s","t","a","t","e","s">>),
        LitI(<<"s","u","g","g","e","s","t","s">>), LitI(<<"n","o","t","e","s">>),
        LitI(<<"w","r","i","t","e","s">>),
        LitI(<<"d","e","m","o","n","s","t","r","a","t","e","s">>),
        LitI(<<"s","h","o","w","s">>), LitI(<<"f","i","n","d","s">>),
        LitI(<<"c","l","a","i","m","s">>), LitI(<<"a","s","s","e","r","t","s">>),
        LitI(<<"o","b","s","e","r","v","e","s">>),
        LitI(<<"e","x","p","l","a","i","n","s">>),
        LitI(<<"c","o","n","t","e","n","d","s">>),
        LitI(<<"b","e","l","i","e","v","e","s">>),
        LitI(<<"m","a","i","n","t","a","i","n","s">>)>>)>>)

\* line 649, after the last name: r'\'s\s+(?:study|research|work|article|book|essay|analysis|findings|argument|theory)' (re.IGNORECASE)
NarrativeNounsRe ==
    Cat(<<
      LitI(<<"'","s">>), Plus(Chr(Space)),
      Alt(<<
        LitI(<<"s","t","u","d","y">>), LitI(<<"r","e","s","e","a","r","c","h">>),
        LitI(<<"w","o","r","k">>), LitI(<<"a","r","t","i","c","l","e">>),
        LitI(<<"b","o","o","k">>), LitI(<<"e","s","s","a","y">>),
        LitI(<<"a","n","a","l","y","s","i","s">>),
        LitI(<<"f","i","n","d","i","n","g","s">>),
        LitI(<<"a","r","g","u","m","e","n","t">>), LitI(<<"t","h","e","o","r","y">>)>>)>>)

\* line 650, before the last name: r'(?:according to|as)\s+' (re.IGNORECASE)
NarrativeLeadRe ==
    Cat(<<
      LitI(<<"a">>),
      Alt(<<LitI(<<"c","c","o","r","d","i","n","g"," ","t","o">>), LitI(<<"s">>)>>),
      Plus(Chr(Space))>>)


\* ------------------------------------------------------------------------
\* Normalisation of authors and years (lines 688-762)
\* ------------------------------------------------------------------------
\* lines 709-727: the last names of one comma-separated segment, lower-cased
\* the initials (line 718), then the punctuation (line 721) removed, the
\* words of two characters or more kept, lower-cased
SegmentLastNames(segment) ==
    IF Strip(segment) = << >> THEN << >>
    ELSE LowerAll(SelectSeq(
             Words(Join(Words(ReSub(NamePunctRe, << >>,
                                    ReSub(InitialRe, <<" ">>, Strip(segment)))), <<" ">>)),
             LAMBDA word : Len(word) > 1))

\* lines 705-707: the segments between the commas, '&' and 'and' being commas
AuthorSegments(text) == SplitChar(ReSub(AuthorSepRe, <<",">>, text), ",")

\* lines 709-729: the last names of all segments, in order
LastNamesOf(segments) ==
    Flatten(AsSeq([k \in 1..Len(segments) |-> SegmentLastNames(segments[k])]))

\* normalize_author(author_text)
normalize_author(author_text) ==
    Join(LastNamesOf(AuthorSegments(ReSub(EtAlRe, << >>,
                                          ReSub(ParenTextRe, << >>, author_text)))), <<" ">>)

\* line 749: the stripped parts that are not empty
StrippedNames(parts) == SelectSeq(StripAll(parts), LAMBDA n : n # << >>)

\* extract_last_name_from_citation(citation_author)
extract_last_name_from_citation(citation_author) ==
    Join(LowerAll(StrippedNames(AuthorSegments(
             ReSub(ColleaguesRe, << >>, ReSub(EtAlRe, << >>, citation_author))))), <<" ">>)

\* normalize_year(year)
normalize_year(year) ==
    IF Truthy(year) /\ Strip(year) # << >> THEN ReSub(YearSuffixRe, << >>, year)
    ELSE None

\* ------------------------------------------------------------------------
\* match_citations_to_references (lines 765-843).  ref_lookup is the
\* defaultdict in insertion order: a sequence of [key, refs].
\* ------------------------------------------------------------------------
KeyIndex(ref_lookup, key) ==
    LET at == {k \in 1..Len(ref_lookup) : ref_lookup[k].key = key}
    IN IF at = {} THEN 0 ELSE MinOf(at)

\* ref_lookup[key].append(ref)
LookupAppend(ref_lookup, key, ref) ==
    LET k == KeyIndex(ref_lookup, key)
    IN IF k = 0 THEN Append(ref_lookup, [key |-> key, refs |-> <<ref>>])
       ELSE [ref_lookup EXCEPT ![k].refs = Append(@, ref)]

\* 'x.split()[0] if x else ""'
FirstWord(x) == IF x # << >> THEN Words(x)[1] ELSE << >>

\* the lookup without the first-author keys of line 787
LookupAddFullKeyOnly(ref_lookup, ref) ==
    LookupAppend(ref_lookup, <<normalize_author(ref[1]), normalize_year(ref[2])>>, ref)

\* lines 776-787: one reference enters the lookup under its full-author key
\* and, when it has several last names, under its first-author key
LookupAddKeys(ref_lookup, ref, norm_author, norm_year) ==
    LET first_last_name == FirstWord(norm_author)
        full == LookupAppend(ref_lookup, <<norm_author, norm_year>>, ref)
    IN IF first_last_name # << >> /\ norm_author # first_last_name
       THEN LookupAppend(full, <<first_last_name, norm_year>>, ref)
       ELSE full

LookupAdd(ref_lookup, ref) ==
    LookupAddKeys(ref_lookup, ref, normalize_author(ref[1]), normalize_year(ref[2]))

RECURSIVE BuildLookup(_, _)
BuildLookup(ref_lookup, refs) ==
    IF refs = << >> THEN ref_lookup
    ELSE BuildLookup(LookupAdd(ref_lookup, Head(refs)), Tail(refs))

\* lines 802-810: a citation without a year walks the keys in insertion
\* order and stops at the first key whose author is the citation's authors
\* or starts with them; ref_author.split()[0] raises IndexError on an author
\* without words
MatchNoYear(ref_lookup, norm_cite) ==
    LET Author(k) == ref_lookup[k].key[1]
        Raises(k) == norm_cite # Author(k) /\ Words(Author(k)) = << >>
        Hits(k) == norm_cite = Author(k)
                   \/ (Words(Author(k)) # << >> /\ norm_cite = Words(Author(k))[1])
        stops == {k \in 1..Len(ref_lookup) : Raises(k) \/ Hits(k)}
    IN IF stops = {} THEN [found |-> FALSE, raised |-> FALSE, refs |-> << >>]
       ELSE IF Raises(MinOf(stops)) THEN [found |-> FALSE, raised |-> TRUE, refs |-> << >>]
       ELSE [found |-> TRUE, raised |-> FALSE, refs |-> ref_lookup[MinOf(stops)].refs]

\* lines 811-823: a citation with a year tries its full key, then its
\* first-author key
MatchWithYear(ref_lookup, norm_cite, norm_year, first_last_name) ==
    LET exact == KeyIndex(ref_lookup, <<norm_cite, norm_year>>)
        first == KeyIndex(ref_lookup, <<first_last_name, norm_year>>)
    IN IF exact # 0 THEN [found |-> TRUE, raised |-> FALSE, refs |-> ref_lookup[exact].refs]
       ELSE IF first # 0 THEN [found |-> TRUE, raised |-> FALSE, refs |-> ref_lookup[first].refs]
       ELSE [found |-> FALSE, raised |-> FALSE, refs |-> << >>]

\* lines 794-823: the body of the loop over the in-text citations
MatchNormalized(ref_lookup, norm_cite, norm_year) ==
    IF norm_year = None THEN MatchNoYear(ref_lookup, norm_cite)
    ELSE MatchWithYear(ref_lookup, norm_cite, norm_year, FirstWord(norm_cite))

MatchCitation(ref_lookup, cite) ==
    MatchNormalized(ref_lookup, extract_last_name_from_citation(cite[1]),
                    IF Truthy(cite[2]) THEN normalize_year(cite[2]) ELSE None)

\* lines 829-841: the references never cited, and the missing citations
\* without their repetitions
UncitedRefs(reference_citations, cited_refs) ==
    SelectSeq(reference_citations, LAMBDA ref : ref \notin cited_refs)

UniqueMissing(missing_refs) == Dedup(missing_refs)


\* ------------------------------------------------------------------------
\* Reference section and paper body (lines 422-530)
\* ------------------------------------------------------------------------
\* clean_turnitin_footer(text)
clean_turnitin_footer(text) ==
    LET \* line 436: r'\s*Page\s+\d+\s+of\s+\d+.*$' (re.IGNORECASE)
        FooterPageRe ==
            Cat(<<
              Star(Chr(Space)), LitI(<<"P","a","g","e">>), Plus(Chr(Space)), Plus(Chr(Digit)),
              Plus(Chr(Space)), LitI(<<"o","f">>), Plus(Chr(Space)), Plus(Chr(Digit)),
              Star(AnyCh), Eol>>)
        \* line 440: r'\s*Page\s+\d+\s+of\s+\d+[^\w]*(?:AI\s+Writing|Submission).*?(?=\s[A-Z][a-z]+,|\s*$)' (re.IGNORECASE)
        FooterMidRe ==
            Cat(<<
              Star(Chr(Space)), LitI(<<"P","a","g","e">>), Plus(Chr(Space)), Plus(Chr(Digit)),
              Plus(Chr(Space)), LitI(<<"o","f">>), Plus(Chr(Space)), Plus(Chr(Digit)),
              Star(NotChr(WordCh)),
              Alt(<<
                Cat(<<LitI(<<"A","I">>), Plus(Chr(Space)), LitI(<<"W","r","i","t","i","n","g">>)>>),
                LitI(<<"S","u","b","m","i","s","s","i","o","n">>)>>),
              RepLazy(AnyCh, 0, Inf),
              Ahead(
                Alt(<<
                  Cat(<<Chr(Space), Chr(AnyCase(Upper)), Plus(Chr(AnyCase(Lower))), Chr({","})>>),
                  Cat(<<Star(Chr(Space)), Eol>>)>>))>>)
        \* line 443: r'\s*Submission\s+ID\s+[^\s]+.*$' (re.IGNORECASE)
        FooterSubmissionRe ==
            Cat(<<
              Star(Chr(Space)), LitI(<<"S","u","b","m","i","s","s","i","o","n">>),
              Plus(Chr(Space)), LitI(<<"I","D">>), Plus(Chr(Space)), Plus(NotChr(Space)),
              Star(AnyCh), Eol>>)
        \* line 446: r'\s*AI\s+Writing\s+Submission.*$' (re.IGNORECASE)
        FooterAiWritingRe ==
            Cat(<<
              Star(Chr(Space)), LitI(<<"A","I">>), Plus(Chr(Space)),
              LitI(<<"W","r","i","t","i","n","g">>), Plus(Chr(Space)),
              LitI(<<"S","u","b","m","i","s","s","i","o","n">>), Star(AnyCh), Eol>>)
        \* line 450: r'\s*Page\s+\d+\s+of\s+\d+\s*-?\s*$' (re.IGNORECASE)
        FooterTailRe ==
            Cat(<<
              Star(Chr(Space)), LitI(<<"P","a","g","e">>), Plus(Chr(Space)), Plus(Chr(Digit)),
              Plus(Chr(Space)), LitI(<<"o","f">>), Plus(Chr(Space)), Plus(Chr(Digit)),
              Star(Chr(Space)), Opt(Chr({"-"})), Star(Chr(Space)), Eol>>)
    IN
    Strip(ReSub(FooterTailRe, << >>,
          ReSub(FooterAiWritingRe, << >>,
          ReSub(FooterSubmissionRe, << >>,
          ReSub(FooterMidRe, << >>,
          ReSub(FooterPageRe, << >>, text))))))

\* p.strip().lower()
Cleaned(p) == StrLower(Strip(p))

IsReferencesHeader(p) == ReMatch(HeaderReferencesRe, Cleaned(p)).ok

IsWorksCitedHeader(p) == ReMatch(HeaderWorksCitedRe, Cleaned(p)).ok

\* the 1-based index of the first header paragraph, 0 when there is none
\* (lines 458-463 and 512-516)
HeaderIndex(paragraphs) ==
    FirstOf({i \in 1..Len(paragraphs) :
                IsReferencesHeader(paragraphs[i]) \/ IsWorksCitedHeader(paragraphs[i])}, 0)

\* the paragraphs a..b of q that are not blank (p.strip() is truthy), in order
Filtered(q, a, b) ==
    IF a > b THEN << >> ELSE SelectSeq(SubSeq(q, a, b), LAMBDA p : Strip(p) # << >>)

\* lines 465-472: the paragraph a later section (Appendix, Tables, ...) starts
\* at after the header h, Len(paragraphs) + 1 when there is none
SectionEnd(paragraphs, h) ==
    FirstOf({i \in (h + 1)..Len(paragraphs) :
                ReMatch(SectionEndRe, Cleaned(paragraphs[i])).ok}, Len(paragraphs) + 1)

\* lines 477-481: each line without the Turnitin footer, empty lines dropped
CleanedLines(inside) ==
    SelectSeq(AsSeq([k \in 1..Len(inside) |-> clean_turnitin_footer(inside[k])]),
              LAMBDA c : c # << >>)

\* the section that follows the header paragraph h
SectionAfter(paragraphs, h) ==
    IF h = 0 THEN << >>
    ELSE CleanedLines(Filtered(paragraphs, h + 1, SectionEnd(paragraphs, h) - 1))

\* find_references_section(paragraphs)
find_references_section(paragraphs) == SectionAfter(paragraphs, HeaderIndex(paragraphs))

\* lines 523-528: the first of the first 20 paragraphs before the header h
\* that reads 'abstract' or 'introduction', 1 when there is none
BodyStart(paragraphs, h) ==
    FirstOf({i \in 1..Min(20, h - 1) :
                Cleaned(paragraphs[i]) \in {<<"a","b","s","t","r","a","c","t">>,
                    <<"i","n","t","r","o","d","u","c","t","i","o","n">>}}, 1)

\* the body that precedes the header paragraph h
BodyBefore(paragraphs, h) ==
    IF h = 0 THEN paragraphs ELSE Filtered(paragraphs, BodyStart(paragraphs, h), h - 1)

\* extract_paper_body(paragraphs)
extract_paper_body(paragraphs) == BodyBefore(paragraphs, HeaderIndex(paragraphs))

\* ------------------------------------------------------------------------
\* detect_citation_style (lines 322-415).  A score is [APA, MLA]; a
\* confidence is the fraction num / den, den the total the code divides by.
\* ------------------------------------------------------------------------
Score(a, m) == [APA |-> a, MLA |-> m]

Plus2(x, y) == Score(x.APA + y.APA, x.MLA + y.MLA)

\* the header scores with 'Works Cited' weighing 2, as 'References' does
HeaderScoreEqualWeights(paragraphs) ==
    IF HeaderIndex(paragraphs) = 0 THEN Score(0, 0)
    ELSE IF IsReferencesHeader(paragraphs[HeaderIndex(paragraphs)]) THEN Score(2, 0)
    ELSE Score(0, 2)

\* lines 341-348: the first header paragraph decides
HeaderScore(paragraphs) ==
    IF HeaderIndex(paragraphs) = 0 THEN Score(0, 0)
    ELSE IF IsReferencesHeader(paragraphs[HeaderIndex(paragraphs)]) THEN Score(2, 0)
    ELSE Score(0, 3)

\* lines 353-385: the shape signatures of one sampled reference line
LineScore(ref) ==
    LET \* line 363: r'[A-Z][a-z]+,\s+[A-Z]\.\s*(?:[A-Z]\.\s*)?\('
        ApaInitialsRe ==
            Cat(<<
              Chr(Upper), Plus(Chr(Lower)), Chr({","}), Plus(Chr(Space)), Chr(Upper), Chr({"."}),
              Star(Chr(Space)), Opt(Cat(<<Chr(Upper), Chr({"."}), Star(Chr(Space))>>)),
              Chr({"("})>>)
        \* line 367: r'^[^(]{10,60}\(\d{4}[a-z]?\)'
        ApaYearEarlyRe ==
            Cat(<<
              Bol, Rep(NotChr({"("}), 10, 60), Chr({"("}), Rep(Chr(Digit), 4, 4), Opt(Chr(Lower)),
              Chr({")"})>>)
        \* line 376: r'[A-Z][a-z]+,\s+[A-Z][a-z]+(?:\s+[A-Z][a-z]+)?\.\s+"'
        MlaFullNameQuoteRe ==
            Cat(<<
              Chr(Upper), Plus(Chr(Lower)), Chr({","}), Plus(Chr(Space)), Chr(Upper),
              Plus(Chr(Lower)), Opt(Cat(<<Plus(Chr(Space)), Chr(Upper), Plus(Chr(Lower))>>)),
              Chr({"."}), Plus(Chr(Space)), Chr({"\""})>>)
        \* line 380: r'[A-Z][a-z]+,\s+[A-Z][a-z]+(?:\s+[A-Z][a-z]+)?\.'
        MlaFullNameRe ==
            Cat(<<
              Chr(Upper), Plus(Chr(Lower)), Chr({","}), Plus(Chr(Space)), Chr(Upper),
              Plus(Chr(Lower)), Opt(Cat(<<Plus(Chr(Space)), Chr(Upper), Plus(Chr(Lower))>>)),
              Chr({"."})>>)
        \* line 380: r'\(\d{4}\)'
        ParenYear4Re == Cat(<<Chr({"("}), Rep(Chr(Digit), 4, 4), Chr({")"})>>)
        \* line 384: r'^[^"]{10,50}"[^"]{10,}".{20,}\d{4}'
        MlaQuotedTitleRe ==
            Cat(<<
              Bol, Rep(NotChr({"\""}), 10, 50), Chr({"\""}), Rep(NotChr({"\""}), 10, Inf),
              Chr({"\""}), Rep(AnyCh, 20, Inf), Rep(Chr(Digit), 4, 4)>>)
    IN
    IF Len(ref) < 20 THEN Score(0, 0)
    ELSE Score((IF Found(ApaInitialsRe, ref) THEN 3 ELSE 0)
               + (IF Found(ApaYearEarlyRe, ref) THEN 2 ELSE 0),
               (IF Found(MlaFullNameQuoteRe, ref) THEN 3 ELSE 0)
               + (IF Found(MlaFullNameRe, ref)
                     /\ ~Found(ParenYear4Re, Slice(ref, 1, Min(60, Len(ref))))
                  THEN 2 ELSE 0)
               + (IF Found(MlaQuotedTitleRe, ref) THEN 2 ELSE 0))

RECURSIVE SampleScore(_)
SampleScore(sample_refs) ==
    IF sample_refs = << >> THEN Score(0, 0)
    ELSE Plus2(LineScore(Head(sample_refs)), SampleScore(Tail(sample_refs)))

\* lines 388-400: the in-text citation shapes of the body
CiteScore(apa_citations, mla_citations) ==
    IF apa_citations > mla_citations * 2 THEN Score(2, 0)
    ELSE IF mla_citations > apa_citations THEN Score(0, 2)
    ELSE Score(0, 0)

\* lines 389-390: the first 100 paragraphs of the body, joined by spaces
BodyText(body) == Join(SubSeq(body, 1, Min(100, Len(body))), <<" ">>)

TextScore(body_text) ==
    CiteScore(Len(ReFindIter(ApaBodyCiteRe, body_text)),
              Len(ReFindIter(MlaBodyCiteRe, body_text)))

BodyScore(paragraphs) == TextScore(BodyText(extract_paper_body(paragraphs)))

\* lines 338-400
StyleScore(paragraphs, ref_section) ==
    Plus2(HeaderScore(paragraphs),
          Plus2(SampleScore(SubSeq(ref_section, 1, Min(5, Len(ref_section)))),
                BodyScore(paragraphs)))

\* line 336: the early return; no score has been computed
Unknown0 == [style |-> "UNKNOWN", num |-> 0, den |-> 1, score |-> Score(0, 0)]

\* the verdict with '>=' for '>' in line 407: a tie goes to APA
StyleOfTieToApa(score) ==
    LET total_score == score.APA + score.MLA
    IN IF total_score = 0 THEN [Unknown0 EXCEPT !.score = score]
       ELSE IF score.APA >= score.MLA
       THEN [style |-> "APA", num |-> score.APA * 100, den |-> total_score, score |-> score]
       ELSE [style |-> "MLA", num |-> score.MLA * 100, den |-> total_score, score |-> score]

\* lines 402-415: the confidence is the rational num / den; score is the
\* dictionary the result was computed from
StyleOf(score) ==
    LET total_score == score.APA + score.MLA
    IN IF total_score = 0 THEN [Unknown0 EXCEPT !.score = score]
       ELSE IF score.APA > score.MLA
       THEN [style |-> "APA", num |-> score.APA * 100, den |-> total_score, score |-> score]
       ELSE IF score.MLA > score.APA
       THEN [style |-> "MLA", num |-> score.MLA * 100, den |-> total_score, score |-> score]
       ELSE [style |-> "UNKNOWN", num |-> 50, den |-> 1, score |-> score]

\* the floor with 'len(ref_section) < 1' for '< 2' in line 335
TooShortBelowOne(ref_section) == ref_section = << >> \/ Len(ref_section) < 1

\* lines 333-336: the floor below which no style is computed
TooShort(ref_section) == ref_section = << >> \/ Len(ref_section) < 2

\* detect_citation_style(paragraphs)
\* the verdict on the paragraphs whose reference section is ref_section
StyleGiven(paragraphs, ref_section) ==
    IF TooShort(ref_section) THEN Unknown0 ELSE StyleOf(StyleScore(paragraphs, ref_section))

\* detect_citation_style(paragraphs)
detect_citation_style(paragraphs) == StyleGiven(paragraphs, find_references_section(paragraphs))

\* ------------------------------------------------------------------------
\* Segmentation of the reference section (lines 904-1162).  The state of
\* either loop is [references, current_ref].
\* ------------------------------------------------------------------------
Space1 == <<" ">>

\* the entry kept whatever its length
EmitAlways(references, current_ref) == Append(references, Join(current_ref, Space1))

\* ' '.join(current_ref) is kept when it is longer than 20 characters
\* (lines 989-991, 1055-1057, 1064-1065, 1118-1120, 1152-1154, 1159-1160)
Emit(references, current_ref) ==
    IF Len(Join(current_ref, Space1)) > 20
    THEN Append(references, Join(current_ref, Space1))
    ELSE references

\* the text after the split point without its first character
AfterSplitSkipsOne(line, split_point) == Strip(Slice(line, split_point + 2, Len(line)))

\* line[:split_point].strip() and line[split_point:].strip(), split_point 0-based
BeforeSplit(line, split_point) == Strip(Slice(line, 1, split_point))

AfterSplit(line, split_point) == Strip(Slice(line, split_point + 1, Len(line)))

\* the 0-based position where group 2 of the candidate m starts
Point(m) == m.caps[2][1] - 1

\* the first of the split points q, -1 when there is none
FirstPoint(q) == IF q = << >> THEN -1 ELSE q[1]

\* [m.start(2) for m in cands]
Points(cands) == AsSeq([k \in 1..Len(cands) |-> Point(cands[k])])

\* lines 966-970: the candidate at split_point follows a middle initial
AfterInitial(line, split_point) ==
    split_point >= 3
    /\ Found(MiddleInitialRe, Slice(line, Max(0, split_point - 4) + 1, split_point))

\* the split points of the candidates that lines 962-982 accept
MlaSplitPoints(line, cands) ==
    SelectSeq(Points(cands),
              LAMBDA p : ~AfterInitial(line, p) /\ Len(BeforeSplit(line, p)) > 40)

\* lines 962-982: the first mid-line candidate that is no middle initial and
\* has more than 40 characters before it; its 0-based split point, -1 if none
MlaSplitPoint(line) == FirstPoint(MlaSplitPoints(line, ReFindIter(MlaMidLineRe, line)))

\* lines 984-1001
MlaSplitLine(st, line, split_point) ==
    LET before == BeforeSplit(line, split_point)
        after == AfterSplit(line, split_point)
    IN IF before # << >> /\ st.current_ref # << >>
       THEN [references |-> Emit(st.references, Append(st.current_ref, before)),
             current_ref |-> <<after>>]
       ELSE IF before # << >>
       THEN [references |-> Append(st.references, before), current_ref |-> <<after>>]
       ELSE [references |-> st.references, current_ref |-> <<after>>]

\* lines 1015-1024
PrevLooksComplete(last_line) ==
    LET \* line 1016: r'\b[12]\d{3}\s*\.?\s*$'
        EndsYearRe ==
            Cat(<<
              Wb, Chr({"1", "2"}), Rep(Chr(Digit), 3, 3), Star(Chr(Space)), Opt(Chr({"."})),
              Star(Chr(Space)), Eol>>)
        \* line 1017: r'pp?\.\s*\d+[\d\s\u2013-]*\.?\s*$'
        EndsPagesRe ==
            Cat(<<
              Chr({"p"}), Opt(Chr({"p"})), Chr({"."}), Star(Chr(Space)), Plus(Chr(Digit)),
              Star(Chr(Digit \cup Space \cup {NDASH, "-"})), Opt(Chr({"."})), Star(Chr(Space)),
              Eol>>)
        \* line 1018: r'(?:com|org|edu|gov|net)/[^\s]*\.?\s*$'
        EndsUrlRe ==
            Cat(<<
              Alt(<<
                Lit(<<"c","o","m">>), Lit(<<"o","r","g">>), Lit(<<"e","d","u">>),
                Lit(<<"g","o","v">>), Lit(<<"n","e","t">>)>>),
              Chr({"/"}), Star(NotChr(Space)), Opt(Chr({"."})), Star(Chr(Space)), Eol>>)
        \* line 1019: r'\.(?:htm|html|pdf|asp|aspx|php|jsp)\.?\s*$'
        EndsFileExtRe ==
            Cat(<<
              Chr({"."}),
              Alt(<<
                Lit(<<"h","t","m">>), Lit(<<"h","t","m","l">>), Lit(<<"p","d","f">>),
                Lit(<<"a","s","p">>), Lit(<<"a","s","p","x">>), Lit(<<"p","h","p">>),
                Lit(<<"j","s","p">>)>>),
              Opt(Chr({"."})), Star(Chr(Space)), Eol>>)
        \* line 1020: r'Accessed\s+\d+\s+\w+\.?\s+\d{4}\.?\s*$'
        EndsAccessedRe ==
            Cat(<<
              Lit(<<"A","c","c","e","s","s","e","d">>), Plus(Chr(Space)), Plus(Chr(Digit)),
              Plus(Chr(Space)), Plus(Chr(WordCh)), Opt(Chr({"."})), Plus(Chr(Space)),
              Rep(Chr(Digit), 4, 4), Opt(Chr({"."})), Star(Chr(Space)), Eol>>)
        \* line 1021: r'vol\.\s*\d+.*\d+\.?\s*$'
        EndsVolumeRe ==
            Cat(<<
              Lit(<<"v","o","l",".">>), Star(Chr(Space)), Plus(Chr(Digit)), Star(AnyCh),
              Plus(Chr(Digit)), Opt(Chr({"."})), Star(Chr(Space)), Eol>>)
        \* line 1022: r'\d+\s+ed\.?\s*$'
        EndsEditionRe ==
            Cat(<<
              Plus(Chr(Digit)), Plus(Chr(Space)), Lit(<<"e","d">>), Opt(Chr({"."})),
              Star(Chr(Space)), Eol>>)
        \* line 1023: r'[a-zA-Z0-9\-/]{3,}\.\s*$'
        EndsWordPeriodRe ==
            Cat(<<
              Rep(Chr(Lower \cup Upper \cup Digit \cup {"-", "/"}), 3, Inf), Chr({"."}),
              Star(Chr(Space)), Eol>>)
    IN
    \/ Found(EndsYearRe, last_line)
    \/ Found(EndsPagesRe, last_line)
    \/ Found(EndsUrlRe, last_line)
    \/ Found(EndsFileExtRe, last_line)
    \/ Found(EndsAccessedRe, last_line)
    \/ Found(EndsVolumeRe, last_line)
    \/ Found(EndsEditionRe, last_line)
    \/ Found(EndsWordPeriodRe, last_line)

\* lines 1008-1052
MlaStartsNew(line, prev_looks_complete) ==
    LET \* line 1028: r'^["\u201c]'
        StartsQuoteRe == Cat(<<Bol, Chr({"\"", LDQ})>>)
        \* line 1034: r'^[A-Z][a-zA-Z\-\']+,\s+[A-Z]'
        MlaAuthorStartRe ==
            Cat(<<
              Bol, Chr(Upper), Plus(Chr(Lower \cup Upper \cup {"-", "'"})), Chr({","}),
              Plus(Chr(Space)), Chr(Upper)>>)
        \* line 1036: r'^United States,'
        UnitedStatesRe ==
            Cat(<<Bol, Lit(<<"U","n","i","t","e","d"," ","S","t","a","t","e","s",",">>)>>)
        \* line 1039: r'^States,'
        StatesRe == Cat(<<Bol, Lit(<<"S","t","a","t","e","s",",">>)>>)
        \* line 1049: r'^[A-Z][a-zA-Z]*\s+[A-Z]'
        TitleWordsStartRe ==
            Cat(<<Bol, Chr(Upper), Star(Chr(Lower \cup Upper)), Plus(Chr(Space)), Chr(Upper)>>)
        \* line 1049: r'^[A-Z][a-zA-Z]+\.\s+[A-Z]'
        TitleWordPeriodStartRe ==
            Cat(<<
              Bol, Chr(Upper), Plus(Chr(Lower \cup Upper)), Chr({"."}), Plus(Chr(Space)),
              Chr(Upper)>>)
    IN
    IF ReMatch(StartsQuoteRe, line).ok THEN TRUE
    ELSE IF ReMatch(MlaAuthorStartRe, line).ok
    THEN IF ReMatch(UnitedStatesRe, line).ok THEN prev_looks_complete
         ELSE IF ReMatch(StatesRe, line).ok THEN FALSE
         ELSE prev_looks_complete
    ELSE IF ReMatch(TitleWordsStartRe, line).ok \/ ReMatch(TitleWordPeriodStartRe, line).ok
    THEN prev_looks_complete
    ELSE FALSE

MlaIsNewRef(current_ref, line) ==
    /\ current_ref # << >>
    /\ MlaStartsNew(line, PrevLooksComplete(current_ref[Len(current_ref)]))

\* lines 935-1060: one line of split_mla_references
MlaStrippedLine(st, is_indented, line, split_point) ==
    IF line = << >> THEN st
    ELSE IF ReMatch(MlaPageHeaderRe, line).ok THEN st
    ELSE IF is_indented /\ st.current_ref # << >>
    THEN [st EXCEPT !.current_ref = Append(@, line)]
    ELSE IF split_point # -1 THEN MlaSplitLine(st, line, split_point)
    ELSE IF MlaIsNewRef(st.current_ref, line)
    THEN [references |-> Emit(st.references, st.current_ref), current_ref |-> <<line>>]
    ELSE [st EXCEPT !.current_ref = Append(@, line)]

MlaLine(st, raw) ==
    MlaStrippedLine(st, raw # << >> /\ raw[1] \in {" ", "\t"}, Strip(raw),
                    MlaSplitPoint(Strip(raw)))

RECURSIVE MlaLines(_, _, _)
MlaLines(st, references_text, k) ==
    IF k > Len(references_text) THEN st
    ELSE MlaLines(MlaLine(st, references_text[k]), references_text, k + 1)

\* lines 1062-1065: the entry still open at the end of the input
Flush(st) == IF st.current_ref # << >> THEN Emit(st.references, st.current_ref)
             ELSE st.references

NoEntries == [references |-> << >>, current_ref |-> << >>]

\* split_mla_references(references_text)
split_mla_references(references_text) == Flush(MlaLines(NoEntries, references_text, 1))

\* lines 1097-1110: the first mid-line candidate with more than 40 characters
\* before it and a parenthesised year in the 100 characters after it
ApaSplitPoints(line, cands) ==
    SelectSeq(Points(cands),
              LAMBDA p : /\ Len(BeforeSplit(line, p)) > 40
                         /\ Found(ParenYearRe,
                                  Slice(AfterSplit(line, p), 1,
                                        Min(100, Len(AfterSplit(line, p))))))

ApaSplitPoint(line) == FirstPoint(ApaSplitPoints(line, ReFindIter(ApaMidLineRe, line)))

\* lines 1112-1127
ApaSplitLine(st, line, split_point) ==
    LET before == BeforeSplit(line, split_point)
        after == AfterSplit(line, split_point)
    IN IF before # << >> /\ st.current_ref # << >>
       THEN [references |-> Emit(st.references, Append(st.current_ref, before)),
             current_ref |-> <<after>>]
       ELSE IF before # << >>
       THEN [references |-> Emit(st.references, <<before>>), current_ref |-> <<after>>]
       ELSE [references |-> st.references, current_ref |-> <<after>>]

\* lines 1135-1147
ApaIsNewRef(current_ref, line) ==
    LET first_part == Slice(line, 1, Min(150, Len(line)))
    IN /\ current_ref # << >>
       /\ ReMatch(StartsUpperRe, line).ok
       /\ \/ Found(ParenYearRe, first_part)
          \/ /\ Found(NearbyYearRe, first_part)
             /\ Found(CommaOrPeriodRe, Slice(first_part, 1, Min(50, Len(first_part))))

\* lines 1086-1156: one line of split_apa_references
ApaStrippedLine(st, line, split_point) ==
    IF line = << >> THEN st
    ELSE IF split_point # -1 THEN ApaSplitLine(st, line, split_point)
    ELSE IF ApaIsNewRef(st.current_ref, line)
    THEN [references |-> Emit(st.references, st.current_ref), current_ref |-> <<line>>]
    ELSE [st EXCEPT !.current_ref = Append(@, line)]

ApaLine(st, raw) == ApaStrippedLine(st, Strip(raw), ApaSplitPoint(Strip(raw)))

RECURSIVE ApaLines(_, _, _)
ApaLines(st, references_text, k) ==
    IF k > Len(references_text) THEN st
    ELSE ApaLines(ApaLine(st, references_text[k]), references_text, k + 1)

\* split_apa_references(references_text)
split_apa_references(references_text) == Flush(ApaLines(NoEntries, references_text, 1))

\* the dispatch with "not 'APA'" for "== 'MLA'"
IsNotApa(citation_style) == citation_style # "APA"

\* lines 909 and 1194: a style is one of the strings the callers pass
IsMla(citation_style) == citation_style = "MLA"

\* split_references(references_text, citation_style)
split_references(references_text, citation_style) ==
    IF IsMla(citation_style) THEN split_mla_references(references_text)
    ELSE split_apa_references(references_text)

\* ------------------------------------------------------------------------
\* Parsing of one reference entry (lines 1186-1356).  A parsed reference is
\* [raw, authors, year, title, source, doi, ref_type]; a field that the
\* code leaves at None is None.
\* ------------------------------------------------------------------------
\* lines 1236-1238, 1317-1319
DoiIn(ref_text, doi_match) ==
    IF doi_match.ok THEN RStripSet(Group(doi_match, ref_text, 1), {".", ","}) ELSE None

DoiOf(ref_text) == DoiIn(ref_text, ReSearch(DoiRe, ref_text))

\* lines 1223-1233
MlaRefType(text_lower) ==
    LET \* line 1223: r',\s*no\.\s*\d+'
        NoRe ==
            Cat(<<
              Chr({","}), Star(Chr(Space)), Lit(<<"n","o",".">>), Star(Chr(Space)),
              Plus(Chr(Digit))>>)
        \* line 1223: r'pp\.\s*\d+'
        PpRe == Cat(<<Lit(<<"p","p",".">>), Star(Chr(Space)), Plus(Chr(Digit))>>)
    IN
    IF Found(VolRe, text_lower) \/ Found(NoRe, text_lower) \/ Found(PpRe, text_lower)
    THEN "journal"
    ELSE IF Contains(text_lower, <<"d","o","i",".","o","r","g">>) THEN "journal"
    ELSE IF Contains(text_lower, <<"w","w","w",".">>) \/ Contains(text_lower, <<"h","t","t","p">>)
    THEN "website"
    ELSE IF \E pub \in {<<"p","r","e","s","s">>, <<"p","u","b","l","i","s","h","e","r">>,
                        <<"p","u","b","l","i","s","h","i","n","g">>, <<"b","o","o","k","s">>} :
               Contains(text_lower, pub)
    THEN "book"
    ELSE "other"

\* lines 1245-1257
MlaAuthorsIn(ref_text, author_match) ==
    LET first_period == Find(ref_text, <<".">>) - 1
    IN IF StartsWith(ref_text, <<"\"">>) \/ StartsWith(ref_text, <<"\"">>) THEN << >>
       ELSE IF author_match.ok THEN Strip(Group(author_match, ref_text, 1))
       ELSE IF first_period > 0 /\ first_period < 100
       THEN Strip(Slice(ref_text, 1, first_period))
       ELSE None

MlaAuthors(ref_text) == MlaAuthorsIn(ref_text, ReMatch(MlaAuthorQuoteRe, ref_text))

\* lines 1264-1268: a year in the last 50 characters
MlaYear(ref_text) ==
    LET tail == Slice(ref_text, Max(1, Len(ref_text) - 49), Len(ref_text))
    IN Group0OrNone(ReSearch(NearbyYearRe, tail), tail)

\* lines 1270-1279
MlaSource(ref_text, title_match, year) ==
    LET after_title == Strip(Slice(ref_text, title_match.pos, Len(ref_text)))
        year_pos == RFind(after_title, year) - 1
    IN IF title_match.ok /\ Truthy(year)
       THEN IF year_pos > 0
            THEN RStripSet(Strip(Slice(after_title, 1, year_pos)), {",", "."})
            ELSE None
       ELSE IF title_match.ok THEN RStripSet(after_title, {",", "."})
       ELSE None

\* parse_mla_reference(ref_text)
ParsedMla(ref_text, title_match, year) ==
    [raw |-> ref_text,
     authors |-> MlaAuthors(ref_text),
     year |-> year,
     title |-> IF title_match.ok THEN Strip(Group(title_match, ref_text, 1)) ELSE None,
     source |-> MlaSource(ref_text, title_match, year),
     doi |-> DoiOf(ref_text),
     ref_type |-> MlaRefType(StrLower(ref_text))]

parse_mla_reference(ref_text) ==
    ParsedMla(ref_text, ReSearch(MlaTitleRe, ref_text), MlaYear(ref_text))

\* lines 1299-1314
ApaRefType(ref_text, text_lower) ==
    LET \* line 1299: r'\bIn\s+[A-Z].*\(Ed[s]?\.\)'
        ChapterRe ==
            Cat(<<
              Wb, Lit(<<"I","n">>), Plus(Chr(Space)), Chr(Upper), Star(AnyCh),
              Lit(<<"(","E","d">>), Opt(Chr({"s"})), Lit(<<".",")">>)>>)
        \* line 1305: r'\.\s*[A-Z][A-Za-z\s&\-]+\s*(Press|Publishers?|Publications?|Books?|Publishing|Inc\.?|LLC|Company|Co\.?)\.?\s*$'
        PublisherSuffixRe ==
            Cat(<<
              Chr({"."}), Star(Chr(Space)), Chr(Upper),
              Plus(Chr(Upper \cup Lower \cup Space \cup {"&", "-"})), Star(Chr(Space)),
              Grp(1,
                Alt(<<
                  Lit(<<"P","r","e","s","s">>),
                  Cat(<<Lit(<<"P","u","b","l","i","s","h","e","r">>), Opt(Chr({"s"}))>>),
                  Cat(<<Lit(<<"P","u","b","l","i","c","a","t","i","o","n">>), Opt(Chr({"s"}))>>),
                  Cat(<<Lit(<<"B","o","o","k">>), Opt(Chr({"s"}))>>),
                  Lit(<<"P","u","b","l","i","s","h","i","n","g">>),
                  Cat(<<Lit(<<"I","n","c">>), Opt(Chr({"."}))>>), Lit(<<"L","L","C">>),
                  Lit(<<"C","o","m","p","a","n","y">>),
                  Cat(<<Lit(<<"C","o">>), Opt(Chr({"."}))>>)>>)),
              Opt(Chr({"."})), Star(Chr(Space)), Eol>>)
        \* line 1307: r'\.\s*(Jossey-Bass|Wiley|Springer|Elsevier|Sage|Routledge|McGraw-Hill|Pearson|Cambridge|Oxford|Harvard|MIT|Yale|Stanford|Norton|Penguin|Random House|Simon & Schuster|HarperCollins|Macmillan|Houghton Mifflin|Cengage|Guilford|Erlbaum|Psychology Press|Academic Press|Shambhala|New Harbinger|Bantam|Vintage|Knopf)\.?\s*$' (re.IGNORECASE)
        KnownPublisherRe ==
            Cat(<<
              Chr({"."}), Star(Chr(Space)),
              Grp(1,
                Alt(<<
                  LitI(<<"J","o","s","s","e","y","-","B","a","s","s">>),
                  LitI(<<"W","i","l","e","y">>), LitI(<<"S","p","r","i","n","g","e","r">>),
                  LitI(<<"E","l","s","e","v","i","e","r">>), LitI(<<"S","a","g","e">>),
                  LitI(<<"R","o","u","t","l","e","d","g","e">>),
                  LitI(<<"M","c","G","r","a","w","-","H","i","l","l">>),
                  LitI(<<"P","e","a","r","s","o","n">>),
                  LitI(<<"C","a","m","b","r","i","d","g","e">>),
                  LitI(<<"O","x","f","o","r","d">>), LitI(<<"H","a","r","v","a","r","d">>),
                  LitI(<<"M","I","T">>), LitI(<<"Y","a","l","e">>),
                  LitI(<<"S","t","a","n","f","o","r","d">>), LitI(<<"N","o","r","t","o","n">>),
                  LitI(<<"P","e","n","g","u","i","n">>),
                  LitI(<<"R","a","n","d","o","m"," ","H","o","u","s","e">>),
                  LitI(<<"S","i","m","o","n"," ","&"," ","S","c","h","u","s","t","e","r">>),
                  LitI(<<"H","a","r","p","e","r","C","o","l","l","i","n","s">>),
                  LitI(<<"M","a","c","m","i","l","l","a","n">>),
                  LitI(<<"H","o","u","g","h","t","o","n"," ","M","i","f","f","l","i","n">>),
                  LitI(<<"C","e","n","g","a","g","e">>),
                  LitI(<<"G","u","i","l","f","o","r","d">>),
                  LitI(<<"E","r","l","b","a","u","m">>),
                  LitI(<<"P","s","y","c","h","o","l","o","g","y"," ","P","r","e","s","s">>),
                  LitI(<<"A","c","a","d","e","m","i","c"," ","P","r","e","s","s">>),
                  LitI(<<"S","h","a","m","b","h","a","l","a">>),
                  LitI(<<"N","e","w"," ","H","a","r","b","i","n","g","e","r">>),
                  LitI(<<"B","a","n","t","a","m">>), LitI(<<"V","i","n","t","a","g","e">>),
                  LitI(<<"K","n","o","p","f">>)>>)),
              Opt(Chr({"."})), Star(Chr(Space)), Eol>>)
        \* line 1309: r'[A-Z][a-z]+,\s*[A-Z]{2}:'
        CityStateRe ==
            Cat(<<
              Chr(Upper), Plus(Chr(Lower)), Chr({","}), Star(Chr(Space)), Rep(Chr(Upper), 2, 2),
              Chr({":"})>>)
        \* line 1309: r':\s*[A-Z][a-z]+\s+(Press|Publishers?|Publications?|Books?|Publishing)'
        ColonPublisherRe ==
            Cat(<<
              Chr({":"}), Star(Chr(Space)), Chr(Upper), Plus(Chr(Lower)), Plus(Chr(Space)),
              Grp(1,
                Alt(<<
                  Lit(<<"P","r","e","s","s">>),
                  Cat(<<Lit(<<"P","u","b","l","i","s","h","e","r">>), Opt(Chr({"s"}))>>),
                  Cat(<<Lit(<<"P","u","b","l","i","c","a","t","i","o","n">>), Opt(Chr({"s"}))>>),
                  Cat(<<Lit(<<"B","o","o","k">>), Opt(Chr({"s"}))>>),
                  Lit(<<"P","u","b","l","i","s","h","i","n","g">>)>>))>>)
        \* line 1311: r'\(\d+(st|nd|rd|th)\s+ed\.\)'
        EditionRe ==
            Cat(<<
              Chr({"("}), Plus(Chr(Digit)),
              Grp(1,
                Alt(<<Lit(<<"s","t">>), Lit(<<"n","d">>), Lit(<<"r","d">>), Lit(<<"t","h">>)>>)),
              Plus(Chr(Space)), Lit(<<"e","d",".",")">>)>>)
        \* line 1313: r'\.\s*[A-Z][A-Za-z\-]+\.?\s*$'
        EndsCapWordRe ==
            Cat(<<
              Chr({"."}), Star(Chr(Space)), Chr(Upper), Plus(Chr(Upper \cup Lower \cup {"-"})),
              Opt(Chr({"."})), Star(Chr(Space)), Eol>>)
    IN
    IF Found(ChapterRe, ref_text) THEN "chapter"
    ELSE IF Contains(text_lower, <<"r","e","t","r","i","e","v","e","d"," ","f","r","o","m">>)
            \/ (Contains(text_lower, <<"h","t","t","p">>)
                /\ ~Contains(text_lower, <<"d","o","i",".","o","r","g">>))
    THEN "website"
    ELSE IF Found(VolIssueRe, ref_text) \/ Found(VolRe, text_lower) THEN "journal"
    ELSE IF Found(PublisherSuffixRe, ref_text) THEN "book"
    ELSE IF Found(KnownPublisherRe, ref_text) THEN "book"
    ELSE IF Found(CityStateRe, ref_text) \/ Found(ColonPublisherRe, ref_text) THEN "book"
    ELSE IF Found(EditionRe, text_lower) THEN "book"
    ELSE IF ~Found(VolIssueRe, ref_text) /\ ~Contains(text_lower, <<"h","t","t","p">>)
            /\ Found(EndsCapWordRe, ref_text)
    THEN "book"
    ELSE "other"

\* lines 1321-1328
ApaYearIn(ref_text, year_match, bare_match) ==
    IF year_match.ok THEN Group(year_match, ref_text, 1)
    ELSE Group0OrNone(bare_match, ref_text)

ApaYear(ref_text) ==
    ApaYearIn(ref_text, ReSearch(ApaYearRe, ref_text), ReSearch(BareYearRe, ref_text))

\* lines 1330-1337: the text before the first occurrence of the year
ApaAuthorsIn(year, year_pos, authors) ==
    IF Truthy(year) /\ year_pos > 0 /\ authors # << >> THEN authors ELSE None

\* the text before the first period, whether or not a year was found
ApaAuthorsBeforePeriod(ref_text, year) ==
    Strip(Slice(ref_text, 1, Max(0, Find(ref_text, <<".">>) - 1)))

ApaAuthors(ref_text, year) ==
    LET year_pos == Find(ref_text, year) - 1
    IN ApaAuthorsIn(year, year_pos,
                    ReSub(AuthorsTrailRe, << >>, Strip(Slice(ref_text, 1, year_pos))))

\* lines 1339-1354
ApaTitleIn(ref_text, year_pattern, after_year, title_match, quote_match, long_match) ==
    IF year_pattern.ok /\ title_match.ok /\ Strip(Group(title_match, after_year, 1)) # << >>
    THEN Strip(Group(title_match, after_year, 1))
    ELSE IF quote_match.ok THEN Group(quote_match, ref_text, 1)
    ELSE IF long_match.ok THEN Group(long_match, ref_text, 1)
    ELSE None

ApaTitleAfter(ref_text, year_pattern) ==
    LET after_year == Slice(ref_text, year_pattern.pos, Len(ref_text))
    IN ApaTitleIn(ref_text, year_pattern, after_year, ReMatch(ApaTitleRe, after_year),
                  ReSearch(QuotedTitleRe, ref_text), ReSearch(QuotedLongRe, ref_text))

ApaTitle(ref_text) == ApaTitleAfter(ref_text, ReSearch(YearDotRe, ref_text))

\* parse_apa_reference(ref_text)
ParsedApa(ref_text, year) ==
    [raw |-> ref_text,
     authors |-> ApaAuthors(ref_text, year),
     year |-> year,
     title |-> ApaTitle(ref_text),
     source |-> None,
     doi |-> DoiOf(ref_text),
     ref_type |-> ApaRefType(ref_text, StrLower(ref_text))]

parse_apa_reference(ref_text) == ParsedApa(ref_text, ApaYear(ref_text))

\* parse_reference(ref_text, citation_style)
parse_reference(ref_text, citation_style) ==
    IF IsMla(citation_style) THEN parse_mla_reference(ref_text)
    ELSE parse_apa_reference(ref_text)

\* ------------------------------------------------------------------------
\* In-text citations (lines 533-685).  A citation or a reference is the
\* pair <<author, year>>.
\* ------------------------------------------------------------------------
\* lines 546-558: the first word of the first author, << >> when there is none
ReferenceLastName(authors) ==
    FirstWordOrEmpty(Strip(ReSub(AndTailRe, << >>, Strip(SplitChar(authors, ",")[1]))))

\* get_reference_last_names(references): a Python set
get_reference_last_names(references) ==
    {ReferenceLastName(references[k].authors) :
        k \in {j \in 1..Len(references) : Truthy(references[j].authors)}} \ {<< >>}

\* what a citation is compared by when duplicates are dropped
SeenKey(c, byAuthor) == IF byAuthor THEN c[1] ELSE c

\* the elements of cands, in order, that are not in prior and repeat no
\* earlier element of cands, both compared by the author alone (byAuthor) or
\* by the whole pair
KeepNew(prior, cands, byAuthor) ==
    SelectSeq(AsSeq([k \in 1..Len(cands) |->
                       [c |-> cands[k],
                        new |-> /\ \A j \in 1..Len(prior) : SeenKey(prior[j], byAuthor) # SeenKey(cands[k], byAuthor)
                                /\ \A j \in 1..(k - 1) : SeenKey(cands[j], byAuthor) # SeenKey(cands[k], byAuthor)]]),
              LAMBDA x : x.new)

Unwrap(q) == AsSeq([k \in 1..Len(q) |-> q[k].c])

\* prior, then the elements of cands that KeepNew keeps
WithNew(prior, cands, byAuthor) == prior \o Unwrap(KeepNew(prior, cands, byAuthor))

\* lines 592-595 and 630-634: the author and the year (or None) of each match
MatchPairs(ms, text, withYear) ==
    AsSeq([k \in 1..Len(ms) |->
             <<Group(ms[k], text, 1), IF withYear THEN Group(ms[k], text, 2) ELSE None>>])

\* lines 600-613: the citations of one parenthesis with semicolons
\* lines 605-607: the parts in which the sub-pattern matches, with the match
PartMatches(parts) ==
    SelectSeq(AsSeq([k \in 1..Len(parts) |->
                       [part |-> parts[k], m |-> ReSearch(ApaSubPattern, parts[k])]]),
              LAMBDA x : x.m.ok)

\* lines 608-610: the author and the year of each of them
PartPairs(found) ==
    AsSeq([k \in 1..Len(found) |->
             <<Group(found[k].m, found[k].part, 1), Group(found[k].m, found[k].part, 2)>>])

MultiCitations(content) ==
    IF ";" \notin SeqRange(content) THEN << >>
    ELSE PartPairs(PartMatches(SplitChar(ReSub(CitePrefixRe, << >>, content), ";")))

\* lines 586-623: the APA branch
\* lines 597-613: the citations of every parenthesis
MultiGroups(groups, text) ==
    Flatten(AsSeq([k \in 1..Len(groups) |-> MultiCitations(Group(groups[k], text, 1))]))

\* lines 617-619: the stripped author and the year of each narrative match
NarrativePairs(ms, text) ==
    AsSeq([k \in 1..Len(ms) |-> <<Strip(Group(ms[k], text, 1)), Group(ms[k], text, 2)>>])

ApaCitations(text) ==
    WithNew(MatchPairs(ReFindIter(ApaParenPattern, text), text, TRUE)
                \o MultiGroups(ReFindIter(MultiParenPattern, text), text),
            NarrativePairs(ReFindIter(ApaNarrativePattern, text), text), FALSE)

\* the characters a reference last name may have for the narrative patterns
\* to be modelled: letters, digits, - ' . and parentheses
NameRe(last_name) ==
    LET kept == SelectSeq(last_name, LAMBDA c : c \notin {"(", ")"})
    IN Cat(AsSeq([k \in 1..Len(kept) |->
                    IF kept[k] = "." THEN AnyCh ELSE Chr(AnyCase({kept[k]}))]))

\* re.compile raises re.error on a pattern with an unbalanced parenthesis
Unbalanced(last_name) ==
    LET Depth(k) == Cardinality({j \in 1..k : last_name[j] = "("})
                    - Cardinality({j \in 1..k : last_name[j] = ")"})
    IN Depth(Len(last_name)) # 0 \/ \E k \in 1..Len(last_name) : Depth(k) < 0

\* lines 647-651: the three narrative patterns of one last name
NarrativePatterns(last_name) ==
    <<Cat(<<Wb, NameRe(last_name), NarrativeVerbsRe>>),
      Cat(<<Wb, NameRe(last_name), NarrativeNounsRe>>),
      Cat(<<NarrativeLeadRe, NameRe(last_name), Wb>>)>>

\* lines 657-660: a year within 50 characters of the match, else None
NearbyYear(text, m) ==
    LET context == Slice(text, Max(0, m.start - 1 - 50) + 1, Min(Len(text), m.pos - 1 + 50))
    IN Group0OrNone(ReSearch(NearbyYearRe, context), context)

\* lines 645-665: the narrative mention of one last name, after the
\* citations found so far: the first match of the first pattern that matches
FirstsOf(patterns, text) ==
    AsSeq([p \in 1..Len(patterns) |-> ReSearch(patterns[p], text)])

MentionAmong(citations, text, last_name, firsts) ==
    LET known == \E k \in 1..Len(citations) : StrLower(citations[k][1]) = StrLower(last_name)
        hits == {p \in 1..Len(firsts) : firsts[p].ok}
    IN IF known \/ hits = {} THEN citations
       ELSE Append(citations, <<last_name, NearbyYear(text, firsts[MinOf(hits)])>>)

NarrativeMention(citations, text, last_name) ==
    MentionAmong(citations, text, last_name, FirstsOf(NarrativePatterns(last_name), text))

RECURSIVE NarrativeMentions(_, _, _, _)
NarrativeMentions(citations, text, reference_last_names, k) ==
    IF k > Len(reference_last_names) THEN citations
    ELSE NarrativeMentions(NarrativeMention(citations, text, reference_last_names[k]),
                           text, reference_last_names, k + 1)

\* lines 625-665: the MLA branch; reference_last_names is the set of last
\* names in the order the loop of line 645 visits it
MlaCitations(text, reference_last_names) ==
    NarrativeMentions(WithNew(MatchPairs(ReFindIter(MlaParenWithPage, text), text, FALSE),
                              MatchPairs(ReFindIter(MlaParenNoPage, text), text, FALSE), TRUE),
                      text, reference_last_names, 1)

\* extract_intext_citations(paper_body, citation_style, reference_last_names):
\* [raised, citations]
extract_intext_citations(paper_body, citation_style, reference_last_names) ==
    LET text == Join(paper_body, Space1)
    IN IF citation_style = "APA"
       THEN [raised |-> FALSE, citations |-> ApaCitations(text)]
       ELSE IF citation_style = "MLA"
       THEN IF \E k \in 1..Len(reference_last_names) : Unbalanced(reference_last_names[k])
            THEN [raised |-> TRUE, citations |-> << >>]
            ELSE [raised |-> FALSE, citations |-> MlaCitations(text, reference_last_names)]
       ELSE [raised |-> FALSE, citations |-> << >>]

\* extract_reference_authors_years(references)
extract_reference_authors_years(references) ==
    LET kept == SelectSeq(references, LAMBDA ref : Truthy(ref.authors))
    IN AsSeq([k \in 1..Len(kept) |->
                <<kept[k].authors, IF Truthy(kept[k].year) THEN kept[k].year ELSE << >>>>])
\* ---------------------------------------------------------------------
\* The inputs.  A paper is its list of paragraphs: body lines, then possibly
\* a header line, then the lines of the reference section.
\* ---------------------------------------------------------------------
\* It was as shown by Smith (2020) here.
SmithBody ==
    <<"I", "t", " ", "w", "a", "s", " ", "a", "s", " ", "s", "h", "o", "w", "n", " ", "b",
      "y", " ", "S", "m", "i", "t", "h", " ", "(", "2", "0", "2", "0", ")", " ", "h", "e",
      "r", "e", ".">>

\* Others disagree (Doe, 2019) on this.
DoeBody ==
    <<"O", "t", "h", "e", "r", "s", " ", "d", "i", "s", "a", "g", "r", "e", "e", " ", "(",
      "D", "o", "e", ",", " ", "2", "0", "1", "9", ")", " ", "o", "n", " ", "t", "h", "i",
      "s", ".">>

\* Berk argues this at length (Berk 45).
BerkBody ==
    <<"B", "e", "r", "k", " ", "a", "r", "g", "u", "e", "s", " ", "t", "h", "i", "s", " ",
      "a", "t", " ", "l", "e", "n", "g", "t", "h", " ", "(", "B", "e", "r", "k", " ", "4",
      "5", ")", ".">>

\* References
ReferencesHeader ==
    <<"R", "e", "f", "e", "r", "e", "n", "c", "e", "s">>

\* Works Cited
WorksCitedHeader ==
    <<"W", "o", "r", "k", "s", " ", "C", "i", "t", "e", "d">>

\* Smith, J. (2020). A study. Journal of Things, 4(2), 1-10.
SmithRef ==
    <<"S", "m", "i", "t", "h", ",", " ", "J", ".", " ", "(", "2", "0", "2", "0", ")", ".",
      " ", "A", " ", "s", "t", "u", "d", "y", ".", " ", "J", "o", "u", "r", "n", "a", "l",
      " ", "o", "f", " ", "T", "h", "i", "n", "g", "s", ",", " ", "4", "(", "2", ")", ",",
      " ", "1", "-", "1", "0", ".">>

\* Doe, J. (2019). Another study. Some Press.
DoeRef ==
    <<"D", "o", "e", ",", " ", "J", ".", " ", "(", "2", "0", "1", "9", ")", ".", " ", "A",
      "n", "o", "t", "h", "e", "r", " ", "s", "t", "u", "d", "y", ".", " ", "S", "o", "m",
      "e", " ", "P", "r", "e", "s", "s", ".">>

\* World Health Organization. (n.d.). Report on health. https://www.who.int/report
WhoRef ==
    <<"W", "o", "r", "l", "d", " ", "H", "e", "a", "l", "t", "h", " ", "O", "r", "g", "a",
      "n", "i", "z", "a", "t", "i", "o", "n", ".", " ", "(", "n", ".", "d", ".", ")", ".",
      " ", "R", "e", "p", "o", "r", "t", " ", "o", "n", " ", "h", "e", "a", "l", "t", "h",
      ".", " ", "h", "t", "t", "p", "s", ":", "/", "/", "w", "w", "w", ".", "w", "h", "o",
      ".", "i", "n", "t", "/", "r", "e", "p", "o", "r", "t">>

\* Berk, Laura. "Child Development Today." Journal of Growth, vol. 4, no. 2, 2010, pp. 1-10.
BerkRef ==
    <<"B", "e", "r", "k", ",", " ", "L", "a", "u", "r", "a", ".", " ", "\"", "C", "h", "i",
      "l", "d", " ", "D", "e", "v", "e", "l", "o", "p", "m", "e", "n", "t", " ", "T", "o",
      "d", "a", "y", ".", "\"", " ", "J", "o", "u", "r", "n", "a", "l", " ", "o", "f", " ",
      "G", "r", "o", "w", "t", "h", ",", " ", "v", "o", "l", ".", " ", "4", ",", " ", "n",
      "o", ".", " ", "2", ",", " ", "2", "0", "1", "0", ",", " ", "p", "p", ".", " ", "1",
      "-", "1", "0", ".">>

\* Stone, Mary Ann. A Long Book Title Here. Penguin Books, 2012.
StoneRef ==
    <<"S", "t", "o", "n", "e", ",", " ", "M", "a", "r", "y", " ", "A", "n", "n", ".", " ",
      "A", " ", "L", "o", "n", "g", " ", "B", "o", "o", "k", " ", "T", "i", "t", "l", "e",
      " ", "H", "e", "r", "e", ".", " ", "P", "e", "n", "g", "u", "i", "n", " ", "B", "o",
      "o", "k", "s", ",", " ", "2", "0", "1", "2", ".">>

\* Journal of Growth and Change, vol. 4, no. 2, 2010, pp. 1-10.
JournalLine ==
    <<"J", "o", "u", "r", "n", "a", "l", " ", "o", "f", " ", "G", "r", "o", "w", "t", "h",
      " ", "a", "n", "d", " ", "C", "h", "a", "n", "g", "e", ",", " ", "v", "o", "l", ".",
      " ", "4", ",", " ", "n", "o", ".", " ", "2", ",", " ", "2", "0", "1", "0", ",", " ",
      "p", "p", ".", " ", "1", "-", "1", "0", ".">>

\* Smith, J., & Jones, K.
SmithJones ==
    <<"S", "m", "i", "t", "h", ",", " ", "J", ".", ",", " ", "&", " ", "J", "o", "n", "e",
      "s", ",", " ", "K", ".">>

\* Smith & Jones
SmithAndJones ==
    <<"S", "m", "i", "t", "h", " ", "&", " ", "J", "o", "n", "e", "s">>

\* Smith et al.
SmithEtAl ==
    <<"S", "m", "i", "t", "h", " ", "e", "t", " ", "a", "l", ".">>

\* Berk, Laura
BerkLaura ==
    <<"B", "e", "r", "k", ",", " ", "L", "a", "u", "r", "a">>

\* J. K
InitialsOnly ==
    <<"J", ".", " ", "K">>

\* Berk
Berk ==
    <<"B", "e", "r", "k">>

\* Doe
Doe ==
    <<"D", "o", "e">>

\* 2020
Y2020 ==
    <<"2", "0", "2", "0">>

\* 2019
Y2019 ==
    <<"2", "0", "1", "9">>

\* 2010
Y2010 ==
    <<"2", "0", "1", "0">>

\* 2015
Y2015 ==
    <<"2", "0", "1", "5">>

\* Smith, J. (2020). A study.
ShortApaRef ==
    <<"S", "m", "i", "t", "h", ",", " ", "J", ".", " ", "(", "2", "0", "2", "0", ")", ".",
      " ", "A", " ", "s", "t", "u", "d", "y", ".">>

\* Berk, Laura. "Child Growth." Penguin, 2010.
ShortMlaRef ==
    <<"B", "e", "r", "k", ",", " ", "L", "a", "u", "r", "a", ".", " ", "\"", "C", "h", "i",
      "l", "d", " ", "G", "r", "o", "w", "t", "h", ".", "\"", " ", "P", "e", "n", "g", "u",
      "i", "n", ",", " ", "2", "0", "1", "0", ".">>

\* Report on health, printed.
PlainRef ==
    <<"R", "e", "p", "o", "r", "t", " ", "o", "n", " ", "h", "e", "a", "l", "t", "h", ",",
      " ", "p", "r", "i", "n", "t", "e", "d", ".">>

\* Anon. (2020). Note.
ShortEntry ==
    <<"A", "n", "o", "n", ".", " ", "(", "2", "0", "2", "0", ")", ".", " ", "N", "o", "t",
      "e", ".">>

\* the bounds of the inputs
MaxBodyLines == 1

MaxRefLines == 2

MaxPairs == 3

SeqsUpTo(S, n) == UNION {[1..m -> S] : m \in 0..n}

\* the papers with body lines from body, at most one header of headers, and
\* reference lines from refs
Papers(body, headers, refs) ==
    {b \o h \o r : b \in SeqsUpTo(body, MaxBodyLines),
                   h \in {<< >>} \cup {<<x>> : x \in headers},
                   r \in SeqsUpTo(refs, MaxRefLines)}

Headers == {ReferencesHeader, WorksCitedHeader}

\* the papers of the style detector: both citation shapes in the body, and
\* reference lines of APA shape, of MLA shape and of neither
StyleLines == {ShortApaRef, ShortMlaRef, PlainRef}

StylePapers == Papers({DoeBody, BerkBody}, Headers, StyleLines)

\* the papers of the whole check
CheckedPapers == Papers({SmithBody, DoeBody, BerkBody}, Headers, {SmithRef, DoeRef, WhoRef, BerkRef})

\* the reference sections and style labels handed to the splitter and parser
ReferenceTexts ==
    SeqsUpTo({SmithRef, BerkRef, WhoRef, StoneRef, JournalLine, ShortEntry}, MaxRefLines)

StyleLabels == {"APA", "MLA", "UNKNOWN", "mla"}

\* the (author, year) pairs handed to the matcher
CitationPairs == {<<SmithAndJones, Y2020>>, <<SmithEtAl, Y2020>>, <<Berk, None>>, <<Doe, Y2019>>}

ReferencePairs ==
    {<<SmithJones, Y2020>>, <<BerkLaura, Y2010>>, <<BerkLaura, Y2015>>, <<BerkLaura, << >>>>,
     <<InitialsOnly, Y2010>>}

\* at most MaxPairs pairs over the two lists together
MatcherInputs ==
    UNION {{<<c, r>> : c \in [1..n -> CitationPairs], r \in SeqsUpTo(ReferencePairs, MaxPairs - n)} :
           n \in 0..MaxPairs}

\* Smith (2020) showed this, unlike others (Doe, 2019).
MixedBody ==
    <<"S", "m", "i", "t", "h", " ", "(", "2", "0", "2", "0", ")", " ", "s", "h", "o", "w",
      "e", "d", " ", "t", "h", "i", "s", ",", " ", "u", "n", "l", "i", "k", "e", " ", "o",
      "t", "h", "e", "r", "s", " ", "(", "D", "o", "e", ",", " ", "2", "0", "1", "9", ")",
      ".">>

\* In 1999 Berk argues this, and Stone argues that.
NarrativeBody ==
    <<"I", "n", " ", "1", "9", "9", "9", " ", "B", "e", "r", "k", " ", "a", "r", "g", "u",
      "e", "s", " ", "t", "h", "i", "s", ",", " ", "a", "n", "d", " ", "S", "t", "o", "n",
      "e", " ", "a", "r", "g", "u", "e", "s", " ", "t", "h", "a", "t", ".">>

\* (Doe, 2019) and (Smith, 2020; Doe, 2019).
RepeatedBody ==
    <<"(", "D", "o", "e", ",", " ", "2", "0", "1", "9", ")", " ", "a", "n", "d", " ", "(",
      "S", "m", "i", "t", "h", ",", " ", "2", "0", "2", "0", ";", " ", "D", "o", "e", ",",
      " ", "2", "0", "1", "9", ")", ".">>

\* the papers whose body mixes the shapes of citation: a narrative citation
\* ahead of a parenthetical one, and two authors of the reference list
\* mentioned by name, and a citation that stands alone in one parenthesis
\* and among others in the next
MixedPapers ==
    Papers({MixedBody, NarrativeBody, RepeatedBody}, Headers, {SmithRef, DoeRef, BerkRef, StoneRef})

\* de Silva, A. (2019). Another study. Some Press.
DeSilvaRef ==
    <<"d", "e", " ", "S", "i", "l", "v", "a", ",", " ", "A", ".", " ", "(", "2", "0", "1",
      "9", ")", ".", " ", "A", "n", "o", "t", "h", "e", "r", " ", "s", "t", "u", "d", "y",
      ".", " ", "S", "o", "m", "e", " ", "P", "r", "e", "s", "s", ".">>

\* and other matters of interest.
ContinuationLine ==
    <<"a", "n", "d", " ", "o", "t", "h", "e", "r", " ", "m", "a", "t", "t", "e", "r", "s",
      " ", "o", "f", " ", "i", "n", "t", "e", "r", "e", "s", "t", ".">>

\* Stone, Mary Ann. A Long Book Title
IncompleteLine ==
    <<"S", "t", "o", "n", "e", ",", " ", "M", "a", "r", "y", " ", "A", "n", "n", ".", " ",
      "A", " ", "L", "o", "n", "g", " ", "B", "o", "o", "k", " ", "T", "i", "t", "l", "e">>

\* "Film Notes." Cinema Journal, 2015.
QuotedLine ==
    <<"\"", "F", "i", "l", "m", " ", "N", "o", "t", "e", "s", ".", "\"", " ", "C", "i",
      "n", "e", "m", "a", " ", "J", "o", "u", "r", "n", "a", "l", ",", " ", "2", "0", "1",
      "5", ".">>

\* A Long Title Of A Work With Words, edited by John F.  Kennedy, Robert. Harper, 1956.
InitialLine ==
    <<"A", " ", "L", "o", "n", "g", " ", "T", "i", "t", "l", "e", " ", "O", "f", " ", "A",
      " ", "W", "o", "r", "k", " ", "W", "i", "t", "h", " ", "W", "o", "r", "d", "s", ",",
      " ", "e", "d", "i", "t", "e", "d", " ", "b", "y", " ", "J", "o", "h", "n", " ", "F",
      ".", " ", " ", "K", "e", "n", "n", "e", "d", "y", ",", " ", "R", "o", "b", "e", "r",
      "t", ".", " ", "H", "a", "r", "p", "e", "r", ",", " ", "1", "9", "5", "6", ".">>

\* Roe, A. (2018). A report on things. https://example.org/a/ Poe, B. (2017). Other things.
MergedLine ==
    <<"R", "o", "e", ",", " ", "A", ".", " ", "(", "2", "0", "1", "8", ")", ".", " ", "A",
      " ", "r", "e", "p", "o", "r", "t", " ", "o", "n", " ", "t", "h", "i", "n", "g", "s",
      ".", " ", "h", "t", "t", "p", "s", ":", "/", "/", "e", "x", "a", "m", "p", "l", "e",
      ".", "o", "r", "g", "/", "a", "/", " ", "P", "o", "e", ",", " ", "B", ".", " ", "(",
      "2", "0", "1", "7", ")", ".", " ", "O", "t", "h", "e", "r", " ", "t", "h", "i", "n",
      "g", "s", ".">>

\* Roe, A. (2018). A report on things. https://example.org/a/ Poe, B. Other things.
NoYearMergedLine ==
    <<"R", "o", "e", ",", " ", "A", ".", " ", "(", "2", "0", "1", "8", ")", ".", " ", "A",
      " ", "r", "e", "p", "o", "r", "t", " ", "o", "n", " ", "t", "h", "i", "n", "g", "s",
      ".", " ", "h", "t", "t", "p", "s", ":", "/", "/", "e", "x", "a", "m", "p", "l", "e",
      ".", "o", "r", "g", "/", "a", "/", " ", "P", "o", "e", ",", " ", "B", ".", " ", "O",
      "t", "h", "e", "r", " ", "t", "h", "i", "n", "g", "s", ".">>

\* Smith, J. (2020). A study. Journal of Things, 4(2), 1-10. http://example.com/x
UrlJournalRef ==
    <<"S", "m", "i", "t", "h", ",", " ", "J", ".", " ", "(", "2", "0", "2", "0", ")", ".",
      " ", "A", " ", "s", "t", "u", "d", "y", ".", " ", "J", "o", "u", "r", "n", "a", "l",
      " ", "o", "f", " ", "T", "h", "i", "n", "g", "s", ",", " ", "4", "(", "2", ")", ",",
      " ", "1", "-", "1", "0", ".", " ", "h", "t", "t", "p", ":", "/", "/", "e", "x", "a",
      "m", "p", "l", "e", ".", "c", "o", "m", "/", "x">>

\* Smith, J. (2020). A study. https://doi.org/10.1000/xyz
DoiOnlyRef ==
    <<"S", "m", "i", "t", "h", ",", " ", "J", ".", " ", "(", "2", "0", "2", "0", ")", ".",
      " ", "A", " ", "s", "t", "u", "d", "y", ".", " ", "h", "t", "t", "p", "s", ":", "/",
      "/", "d", "o", "i", ".", "o", "r", "g", "/", "1", "0", ".", "1", "0", "0", "0", "/",
      "x", "y", "z">>

\* the same line with two blanks after the URL
WideMergedLine ==
    <<"R", "o", "e", ",", " ", "A", ".", " ", "(", "2", "0", "1", "8", ")", ".", " ", "A",
      " ", "r", "e", "p", "o", "r", "t", " ", "o", "n", " ", "t", "h", "i", "n", "g", "s",
      ".", " ", "h", "t", "t", "p", "s", ":", "/", "/", "e", "x", "a", "m", "p", "l", "e",
      ".", "o", "r", "g", "/", "a", "/", " ", " ", "P", "o", "e", ",", " ", "B", ".", " ",
      "(", "2", "0", "1", "7", ")", ".", " ", "O", "t", "h", "e", "r", " ", "t", "h", "i",
      "n", "g", "s", ".">>

\* '   Roe, Anna. A report on things. www.example.org/a/. Poe, Bill. Other things, 2017.'
IndentedMergedLine ==
    <<" ", " ", " ", "R", "o", "e", ",", " ", "A", "n", "n", "a", ".", " ", "A", " ", "r",
      "e", "p", "o", "r", "t", " ", "o", "n", " ", "t", "h", "i", "n", "g", "s", ".", " ",
      "w", "w", "w", ".", "e", "x", "a", "m", "p", "l", "e", ".", "o", "r", "g", "/", "a",
      "/", ".", " ", "P", "o", "e", ",", " ", "B", "i", "l", "l", ".", " ", "O", "t", "h",
      "e", "r", " ", "t", "h", "i", "n", "g", "s", ",", " ", "2", "0", "1", "7", ".">>

\* Smith 12
PageHeaderLine ==
    <<"S", "m", "i", "t", "h", " ", "1", "2">>

\* the lines handed to the two segmenters one by one: entries of APA shape,
\* a continuation line, an MLA line that does not look complete, a line
\* that opens with a quoted title, lines that hold two entries, one of them
\* indented, and a page header
SegmentLines ==
    {SmithRef, DoeRef, DeSilvaRef, ContinuationLine, IncompleteLine, QuotedLine, InitialLine,
     MergedLine, NoYearMergedLine, ShortEntry,
     IndentedMergedLine, PageHeaderLine, WideMergedLine}

SegmentTexts == SeqsUpTo(SegmentLines, MaxRefLines)

\* “Film Notes.” Cinema Journal, 2015.
CurlyQuotedLine ==
    <<LDQ, "F", "i", "l", "m", " ", "N", "o", "t", "e", "s", ".", RDQ, " ", "C", "i", "n",
      "e", "m", "a", " ", "J", "o", "u", "r", "n", "a", "l", ",", " ", "2", "0", "1", "5",
      ".">>

\* the entries handed to the two parsers, two of them with the title first
TypedEntries ==
    {SmithRef, WhoRef, BerkRef, StoneRef, UrlJournalRef, DoiOnlyRef, QuotedLine,
     CurlyQuotedLine}

\* the words and separators of the author strings handed to normalize_author
MaxNames == 3

NameWords == {<<"S","m","i","t","h">>, <<"J","o","n","e","s">>, <<"A","n","d">>,
              <<"E","t">>, <<"A","l">>, <<"J",".">>}

NameSeparators == {<<",", " ">>, <<" ", "&", " ">>}

AuthorStrings ==
    {Join(names, sep) : names \in SeqsUpTo(NameWords, MaxNames) \ {<< >>},
                        sep \in NameSeparators}

\* ---------------------------------------------------------------------
\* The state: the entry point being executed (call), the position in it
\* (pc), the local variables of the functions on the way from the
\* paragraphs of one paper to its result, and the window with its worker
\* threads.  A variable not yet assigned holds None.
\* ---------------------------------------------------------------------
VARIABLES call, pc, paragraphs, citation_style, confidence, score, paper_body, ref_section,
          individual_refs, numbered_refs, parsed_refs, reference_last_names, intext_citations,
          reference_citations, ref_lookup, k, cited_refs, missing_refs, uncited_refs,
          unique_missing, results, references_text, references, current_ref, line_no,
          author_string, normalized, is_running, run_btn, results_widgets, threads, events

vars == <<call, pc, paragraphs, citation_style, confidence, score, paper_body, ref_section,
          individual_refs, numbered_refs, parsed_refs, reference_last_names, intext_citations,
          reference_citations, ref_lookup, k, cited_refs, missing_refs, uncited_refs,
          unique_missing, results, references_text, references, current_ref, line_no,
          author_string, normalized, is_running, run_btn, results_widgets, threads, events>>

styleVars == <<citation_style, confidence, score>>

sectionVars == <<paper_body, ref_section>>

entryVars == <<individual_refs, numbered_refs, parsed_refs>>

citeVars == <<reference_last_names, intext_citations, reference_citations>>

matchVars == <<ref_lookup, k, cited_refs, missing_refs>>

outVars == <<uncited_refs, unique_missing, results>>

\* the locals of the loop of a segmenter called on its own
loopVars == <<references_text, references, current_ref, line_no>>

\* the argument and the result of normalize_author called on its own
authorVars == <<author_string, normalized>>

\* the fields of the window (ReferenceCheckerGUI), its worker threads and the
\* callbacks the workers have handed to the event loop (root.after)
guiVars == <<is_running, run_btn, results_widgets, threads, events>>

aloneVars == <<loopVars, authorVars, guiVars>>

\* line 857 (and line 493): style, confidence = detect_citation_style(paragraphs);
\* ref_section and score are the locals of lines 333 and 338
DetectStyle ==
    /\ pc = "detect"
    /\ ref_section' = find_references_section(paragraphs)
    /\ \E r \in {detect_citation_style(paragraphs)} :
          /\ citation_style' = r.style
          /\ confidence' = [num |-> r.num, den |-> r.den]
          /\ score' = r.score
    /\ pc' = IF call = "detect_citation_style" THEN "done" ELSE "sections"
    /\ UNCHANGED <<aloneVars, call, paragraphs, paper_body, entryVars, citeVars, matchVars, outVars>>

\* lines 862-870: the result of a paper without reference section
NoSection ==
    [uncited_refs |-> << >>, missing_refs |-> << >>, total_citations |-> 0,
     total_references |-> 0, has_issues |-> FALSE]

\* lines 860-871: the two sections, and the early result when there is no
\* reference section
ExtractSections ==
    /\ pc = "sections"
    /\ paper_body' = extract_paper_body(paragraphs)
    /\ ref_section' = find_references_section(paragraphs)
    /\ IF ref_section' = << >>
       THEN results' = NoSection /\ pc' = "done"
       ELSE results' = results /\ pc' = "split"
    /\ UNCHANGED <<aloneVars, call, paragraphs, styleVars, entryVars, citeVars, matchVars,
                   uncited_refs, unique_missing>>

\* the numbering with enumerate(individual_refs) for enumerate(individual_refs, 1)
NumberedFromZero(refs) == AsSeq([i \in 1..Len(refs) |-> [ref_num |-> i - 1, text |-> refs[i]]])

\* lines 1172-1175: the entries numbered from 1
NumberedRefs(refs) == AsSeq([i \in 1..Len(refs) |-> [ref_num |-> i, text |-> refs[i]]])

\* line 874 (and lines 1169-1175): individual_refs = split_references(...),
\* which split_references_from_results numbers
SplitReferences ==
    /\ pc = "split"
    /\ individual_refs' = split_references(ref_section, citation_style)
    /\ numbered_refs' = IF call = "parse_all_references" THEN NumberedRefs(individual_refs')
                        ELSE numbered_refs
    /\ pc' = "parse"
    /\ UNCHANGED <<aloneVars, call, paragraphs, styleVars, sectionVars,
                   parsed_refs, citeVars, matchVars, outVars>>

\* line 1368: parsed['ref_num'] = ref['ref_num']
WithRefNum(parsed, ref_num) ==
    [f \in DOMAIN parsed \cup {"ref_num"} |-> IF f = "ref_num" THEN ref_num ELSE parsed[f]]

\* lines 1364-1369: the loop of parse_all_references over info['references']
ParsedNumbered(refs, style) ==
    AsSeq([j \in 1..Len(refs) |->
             WithRefNum(parse_reference(refs[j].text, style), refs[j].ref_num)])

\* line 875: every entry through parse_reference; and lines 1364-1369,
\* where the entries are the numbered ones and keep their number
ParseReferences ==
    /\ pc = "parse"
    /\ parsed_refs' = IF call = "parse_all_references"
                      THEN ParsedNumbered(numbered_refs, citation_style)
                      ELSE AsSeq([j \in 1..Len(individual_refs) |->
                                    parse_reference(individual_refs[j], citation_style)])
    /\ pc' = IF call = "parse_all_references" THEN "done" ELSE "extract"
    /\ UNCHANGED <<aloneVars, call, paragraphs, styleVars, sectionVars,
                   individual_refs, numbered_refs, citeVars, matchVars, outVars>>

\* the orders in which a loop can visit the elements of a set
Orders(S) ==
    {f \in [1..Cardinality(S) -> S] : \A i, j \in 1..Cardinality(S) : i # j => f[i] # f[j]}

\* lines 878-884: the last names of the references, the in-text citations of
\* the body (the loop of line 645 visits the set of names in some order),
\* and the (authors, year) pairs of the references
ExtractCitations ==
    /\ pc = "extract"
    /\ reference_last_names' = get_reference_last_names(parsed_refs)
    /\ \E order \in Orders(reference_last_names') :
          \E found \in {extract_intext_citations(paper_body, citation_style, order)} :
             IF found.raised
             THEN /\ pc' = "raised"
                  /\ UNCHANGED <<intext_citations, reference_citations>>
             ELSE /\ intext_citations' = found.citations
                  /\ reference_citations' = extract_reference_authors_years(parsed_refs)
                  /\ pc' = "lookup"
    /\ UNCHANGED <<aloneVars, call, paragraphs, styleVars, sectionVars, entryVars, matchVars, outVars>>

\* lines 774-791: the lookup of the references, and the empty records of
\* the matching loop
MakeLookup ==
    /\ pc = "lookup"
    /\ ref_lookup' = BuildLookup(<< >>, reference_citations)
    /\ cited_refs' = {}
    /\ missing_refs' = << >>
    /\ k' = 1
    /\ pc' = "match"
    /\ UNCHANGED <<aloneVars, call, paragraphs, styleVars, sectionVars, entryVars, citeVars, outVars>>

\* lines 794-827: one pass of the loop over the in-text citations; the
\* IndexError of line 806 ends the call
MatchNext ==
    /\ pc = "match"
    /\ k <= Len(intext_citations)
    /\ \E m \in {MatchCitation(ref_lookup, intext_citations[k])} :
          IF m.raised
          THEN /\ pc' = "raised"
               /\ UNCHANGED <<k, cited_refs, missing_refs>>
          ELSE /\ cited_refs' = cited_refs \cup SeqRange(m.refs)
               /\ missing_refs' = IF m.found THEN missing_refs
                                  ELSE Append(missing_refs, intext_citations[k])
               /\ k' = k + 1
               /\ pc' = pc
    /\ UNCHANGED <<aloneVars, call, paragraphs, styleVars, sectionVars, entryVars, citeVars, ref_lookup,
                   outVars>>

\* lines 829-843: the two lists match_citations_to_references returns
FinishMatch ==
    /\ pc = "match"
    /\ k > Len(intext_citations)
    /\ uncited_refs' = UncitedRefs(reference_citations, cited_refs)
    /\ unique_missing' = UniqueMissing(missing_refs)
    /\ pc' = IF call = "match_citations_to_references" THEN "done" ELSE "report"
    /\ UNCHANGED <<aloneVars, call, paragraphs, styleVars, sectionVars, entryVars, citeVars, matchVars,
                   results>>

\* lines 888-894: the result of the paper
Report ==
    /\ pc = "report"
    /\ results' = [uncited_refs |-> uncited_refs, missing_refs |-> unique_missing,
                   total_citations |-> Len(intext_citations),
                   total_references |-> Len(reference_citations),
                   has_issues |-> Len(uncited_refs) > 0 \/ Len(unique_missing) > 0]
    /\ pc' = "done"
    /\ UNCHANGED <<aloneVars, call, paragraphs, styleVars, sectionVars, entryVars, citeVars, matchVars,
                   uncited_refs, unique_missing>>

\* nothing assigned yet
NoStyle == citation_style = None /\ confidence = None /\ score = None

NoSections == paper_body = None /\ ref_section = None

NoEntriesYet == individual_refs = None /\ numbered_refs = None /\ parsed_refs = None

NoCitations ==
    reference_last_names = None /\ intext_citations = None /\ reference_citations = None

NotMatching == ref_lookup = None /\ k = 0 /\ cited_refs = None /\ missing_refs = None

NoOutput == uncited_refs = None /\ unique_missing = None /\ results = None

NoLoop == references_text = None /\ references = None /\ current_ref = None /\ line_no = 0

NoAuthor == author_string = None /\ normalized = None

NoGui ==
    /\ is_running = None /\ run_btn = None /\ results_widgets = None
    /\ threads = None /\ events = None

\* no segmenter and no normalize_author called on its own, and no window
NotAlone == NoLoop /\ NoAuthor /\ NoGui

\* detect_citation_style on one paper
InitStyle ==
    /\ call = "detect_citation_style"
    /\ pc = "detect"
    /\ paragraphs \in StylePapers
    /\ NoStyle /\ NoSections /\ NoEntriesYet /\ NoCitations /\ NotMatching /\ NoOutput /\ NotAlone

NextStyle == DetectStyle

SpecStyle == InitStyle /\ [][NextStyle]_vars

\* match_citations_to_references on two lists of pairs
InitMatch ==
    /\ call = "match_citations_to_references"
    /\ pc = "lookup"
    /\ \E input \in MatcherInputs :
          intext_citations = input[1] /\ reference_citations = input[2]
    /\ paragraphs = None /\ reference_last_names = None
    /\ NoStyle /\ NoSections /\ NoEntriesYet /\ NotMatching /\ NoOutput /\ NotAlone

NextMatch == MakeLookup \/ MatchNext \/ FinishMatch

SpecMatch == InitMatch /\ [][NextMatch]_vars

\* split_references_from_results and parse_all_references on the reference
\* text and the style label of one paper
InitDispatch ==
    /\ call = "parse_all_references"
    /\ pc = "split"
    /\ ref_section \in ReferenceTexts
    /\ citation_style \in StyleLabels
    /\ paragraphs = None /\ confidence = None /\ score = None /\ paper_body = None
    /\ NoEntriesYet /\ NoCitations /\ NotMatching /\ NoOutput /\ NotAlone

NextDispatch == SplitReferences \/ ParseReferences

SpecDispatch == InitDispatch /\ [][NextDispatch]_vars

\* check_citation_matching on one paper
InitPipe ==
    /\ call = "check_citation_matching"
    /\ pc = "detect"
    /\ paragraphs \in CheckedPapers
    /\ NoStyle /\ NoSections /\ NoEntriesYet /\ NoCitations /\ NotMatching /\ NoOutput /\ NotAlone

NextPipe ==
    \/ DetectStyle
    \/ ExtractSections
    \/ SplitReferences
    \/ ParseReferences
    \/ ExtractCitations
    \/ MakeLookup
    \/ MatchNext
    \/ FinishMatch
    \/ Report

SpecPipe == InitPipe /\ [][NextPipe]_vars

\* check_citation_matching on one paper with citations of several shapes
InitMixed ==
    /\ call = "check_citation_matching"
    /\ pc = "detect"
    /\ paragraphs \in MixedPapers
    /\ NoStyle /\ NoSections /\ NoEntriesYet /\ NoCitations /\ NotMatching /\ NoOutput /\ NotAlone

SpecMixed == InitMixed /\ [][NextPipe]_vars

\* lines 935-1060: one pass of the loop of split_mla_references
SplitMlaLine ==
    /\ call = "split_mla_references"
    /\ pc = "line"
    /\ line_no <= Len(references_text)
    /\ \E st \in {MlaLine([references |-> references, current_ref |-> current_ref],
                          references_text[line_no])} :
          references' = st.references /\ current_ref' = st.current_ref
    /\ line_no' = line_no + 1
    /\ UNCHANGED <<call, pc, paragraphs, references_text, styleVars, sectionVars, entryVars,
                   citeVars, matchVars, outVars, authorVars, guiVars>>

\* lines 1086-1155: one pass of the loop of split_apa_references
SplitApaLine ==
    /\ call = "split_apa_references"
    /\ pc = "line"
    /\ line_no <= Len(references_text)
    /\ \E st \in {ApaLine([references |-> references, current_ref |-> current_ref],
                          references_text[line_no])} :
          references' = st.references /\ current_ref' = st.current_ref
    /\ line_no' = line_no + 1
    /\ UNCHANGED <<call, pc, paragraphs, references_text, styleVars, sectionVars, entryVars,
                   citeVars, matchVars, outVars, authorVars, guiVars>>

\* lines 1062-1067 and 1157-1162: the entry still open after the last line,
\* and the return
ReturnReferences ==
    /\ call \in {"split_mla_references", "split_apa_references"}
    /\ pc = "line"
    /\ line_no > Len(references_text)
    /\ references' = Flush([references |-> references, current_ref |-> current_ref])
    /\ pc' = "done"
    /\ UNCHANGED <<call, paragraphs, references_text, current_ref, line_no, styleVars,
                   sectionVars, entryVars, citeVars, matchVars, outVars, authorVars, guiVars>>

\* either segmenter on the lines of a reference section (lines 932-933 and
\* 1083-1084: both lists empty)
InitSegment ==
    /\ call \in {"split_mla_references", "split_apa_references"}
    /\ pc = "line"
    /\ references_text \in SegmentTexts
    /\ references = << >> /\ current_ref = << >> /\ line_no = 1
    /\ paragraphs = None
    /\ NoStyle /\ NoSections /\ NoEntriesYet /\ NoCitations /\ NotMatching /\ NoOutput
    /\ NoAuthor /\ NoGui

NextSegment == SplitMlaLine \/ SplitApaLine \/ ReturnReferences

SpecSegment == InitSegment /\ [][NextSegment]_vars

\* parse_all_references on the numbered entries of one paper
InitParse ==
    /\ call = "parse_all_references"
    /\ pc = "parse"
    /\ individual_refs \in SeqsUpTo(TypedEntries, MaxRefLines)
    /\ numbered_refs = NumberedRefs(individual_refs)
    /\ citation_style \in {"APA", "MLA"}
    /\ parsed_refs = None
    /\ paragraphs = None /\ confidence = None /\ score = None
    /\ NoSections /\ NoCitations /\ NotMatching /\ NoOutput /\ NotAlone

NextParse == ParseReferences

SpecParse == InitParse /\ [][NextParse]_vars

\* lines 688-732: normalize_author on an author string
NormalizeAuthor ==
    /\ call = "normalize_author"
    /\ pc = "normalize"
    /\ normalized' = normalize_author(author_string)
    /\ pc' = "again"
    /\ UNCHANGED <<call, paragraphs, author_string, styleVars, sectionVars, entryVars,
                   citeVars, matchVars, outVars, loopVars, guiVars>>

\* lines 688-732: normalize_author on its own result
NormalizeAgain ==
    /\ call = "normalize_author"
    /\ pc = "again"
    /\ author_string' = normalized
    /\ normalized' = normalize_author(normalized)
    /\ pc' = "done"
    /\ UNCHANGED <<call, paragraphs, styleVars, sectionVars, entryVars, citeVars, matchVars,
                   outVars, loopVars, guiVars>>

InitNormalize ==
    /\ call = "normalize_author"
    /\ pc = "normalize"
    /\ author_string \in AuthorStrings
    /\ normalized = None
    /\ paragraphs = None
    /\ NoStyle /\ NoSections /\ NoEntriesYet /\ NoCitations /\ NotMatching /\ NoOutput
    /\ NoLoop /\ NoGui

NextNormalize == NormalizeAuthor \/ NormalizeAgain

SpecNormalize == InitNormalize /\ [][NextNormalize]_vars


\* ---------------------------------------------------------------------
\* The window: the main thread runs the event loop (pc = "mainloop") and
\* the handler of the run button (pc = "run_verification"); each worker
\* thread is at a place of verification_worker.
\* ---------------------------------------------------------------------
\* the workers started in one session
MaxRuns == 3

\* run_verification without its guard
NeverRunning == FALSE

\* lines 2299-2300: the guard of run_verification
AlreadyRunning == is_running

\* lines 2342-2393 as if a return in the try block left the function at once
AfterTryReturnLeaves(outcome) ==
    IF outcome = "raised" THEN "except"
    ELSE IF outcome = "no_papers" THEN "ended"
    ELSE "finally"

\* lines 2342, 2388, 2392: where the try statement goes when its block
\* ends with outcome: an exception enters the except clause, a return and
\* the end of the block enter the finally clause
AfterTry(outcome) == IF outcome = "raised" THEN "except" ELSE "finally"

\* how a worker left the try block
ExitOf(outcome) ==
    IF outcome = "raised" THEN "exception"
    ELSE IF outcome = "no_papers" THEN "no_papers"
    ELSE "normal"

\* the variables no step of the window touches
coreVars ==
    <<paragraphs, styleVars, sectionVars, entryVars, citeVars, matchVars, outVars, loopVars,
      authorVars>>

\* line 2258: the event loop calls the command of the run button
ButtonPressed ==
    /\ call = "mainloop"
    /\ pc = "mainloop"
    /\ Len(threads) < MaxRuns
    /\ pc' = "run_verification"
    /\ UNCHANGED <<call, coreVars, guiVars>>

\* lines 2298-2339: run_verification; valid is what the tests of lines
\* 2305-2323 find of the folder, the output file and the thresholds
RunVerification ==
    /\ call = "mainloop"
    /\ pc = "run_verification"
    /\ \E valid \in BOOLEAN :
          IF AlreadyRunning \/ ~valid
          THEN UNCHANGED <<is_running, run_btn, results_widgets, threads>>
          ELSE /\ results_widgets' = << >>
               /\ is_running' = TRUE
               /\ run_btn' = "disabled"
               /\ threads' = Append(threads, [at |-> "reading", exit |-> "none"])
    /\ pc' = "mainloop"
    /\ UNCHANGED <<call, coreVars, events>>

\* lines 2343-2347: worker t reads the papers: some, none, or an exception
WorkerRead(t) ==
    /\ call = "mainloop"
    /\ t \in DOMAIN threads
    /\ threads[t].at = "reading"
    /\ \E outcome \in {"papers", "no_papers", "raised"} :
          /\ threads' = [threads EXCEPT ![t] =
                            IF outcome = "papers" THEN [at |-> "pipeline", exit |-> "none"]
                            ELSE [at |-> AfterTry(outcome), exit |-> ExitOf(outcome)]]
          /\ events' = IF outcome = "no_papers" THEN Append(events, "showerror") ELSE events
    /\ UNCHANGED <<call, pc, coreVars, is_running, run_btn, results_widgets>>

\* lines 2349-2387: the steps of the pipeline, to the end or to an exception
WorkerPipeline(t) ==
    /\ call = "mainloop"
    /\ t \in DOMAIN threads
    /\ threads[t].at = "pipeline"
    /\ \E outcome \in {"done", "raised"} :
          /\ threads' = [threads EXCEPT ![t] =
                            [at |-> AfterTry(outcome), exit |-> ExitOf(outcome)]]
          /\ events' = IF outcome = "done"
                       THEN events \o <<"show_results", "showinfo">>
                       ELSE events
    /\ UNCHANGED <<call, pc, coreVars, is_running, run_btn, results_widgets>>

\* lines 2388-2391: the except clause
WorkerExcept(t) ==
    /\ call = "mainloop"
    /\ t \in DOMAIN threads
    /\ threads[t].at = "except"
    /\ threads' = [threads EXCEPT ![t].at = "finally"]
    /\ events' = Append(events, "showerror")
    /\ UNCHANGED <<call, pc, coreVars, is_running, run_btn, results_widgets>>

\* lines 2392-2393: the finally clause, after which the thread ends
WorkerFinally(t) ==
    /\ call = "mainloop"
    /\ t \in DOMAIN threads
    /\ threads[t].at = "finally"
    /\ threads' = [threads EXCEPT ![t].at = "ended"]
    /\ events' = Append(events, "verification_complete")
    /\ UNCHANGED <<call, pc, coreVars, is_running, run_btn, results_widgets>>

\* line 2409: the event loop runs the callback that has waited longest;
\* lines 2395-2399: verification_complete; lines 2401-2403: show_results
\* does nothing; the message boxes change no field
TkCallback ==
    /\ call = "mainloop"
    /\ pc = "mainloop"
    /\ events # << >>
    /\ events' = Tail(events)
    /\ IF Head(events) = "verification_complete"
       THEN is_running' = FALSE /\ run_btn' = "normal"
       ELSE UNCHANGED <<is_running, run_btn>>
    /\ UNCHANGED <<call, pc, coreVars, results_widgets, threads>>

\* lines 2053-2056 and 2258: the window after construction
InitGui ==
    /\ call = "mainloop"
    /\ pc = "mainloop"
    /\ is_running = FALSE
    /\ run_btn = "normal"
    /\ results_widgets = << >>
    /\ threads = << >>
    /\ events = << >>
    /\ paragraphs = None
    /\ NoStyle /\ NoSections /\ NoEntriesYet /\ NoCitations /\ NotMatching /\ NoOutput
    /\ NoLoop /\ NoAuthor

Worker ==
    \E t \in 1..MaxRuns :
        WorkerRead(t) \/ WorkerPipeline(t) \/ WorkerExcept(t) \/ WorkerFinally(t)

NextGui == ButtonPressed \/ RunVerification \/ Worker \/ TkCallback

SpecGui == InitGui /\ [][NextGui]_vars

\* the threads of the process take turns: a worker goes on, the handler
\* returns, and the event loop, each time it is back, gets to the callbacks
\* that wait
SpecGuiFair ==
    SpecGui /\ WF_vars(Worker) /\ WF_vars(RunVerification) /\ SF_vars(TkCallback)
\* ---------------------------------------------------------------------
\* The claims.
\* ---------------------------------------------------------------------
Returned == pc = "done"

\* the (body line, reference line) pairs that cite each other
CitedPairs == {<<SmithBody, SmithRef>>, <<DoeBody, DoeRef>>}

\* paper p has the 'References' header at h, and its body lines and
\* reference lines are the two sides of the same pairs of CitedPairs
MutuallyCited(p, h) ==
    LET body == SeqRange(SubSeq(p, 1, h - 1))
        refs == SeqRange(SubSeq(p, h + 1, Len(p)))
    IN /\ p[h] = ReferencesHeader
       /\ refs # {}
       /\ body \subseteq {pair[1] : pair \in CitedPairs}
       /\ refs \subseteq {pair[2] : pair \in CitedPairs}
       /\ \A pair \in CitedPairs : pair[1] \in body <=> pair[2] \in refs

\* C1: a paper whose body cites 'Smith (2020)' and whose 'References'
\* section is the single entry of Smith (2020) gets empty uncited_refs and
\* missing_refs and no issue; so does every paper, with one reference line
\* or more, whose citations and references match each other one for one.
C1_MatchedPaperHasNoIssues ==
    (Returned /\ call = "check_citation_matching") =>
        \A h \in DOMAIN paragraphs :
            MutuallyCited(paragraphs, h) =>
                /\ results.uncited_refs = << >>
                /\ results.missing_refs = << >>
                /\ ~results.has_issues

\* C2: a paper whose body holds '(Doe, 2019)' and whose references hold no
\* entry of Doe (2019), with or without reference section, has
\* ('Doe', '2019') in missing_refs.
C2_DoeIsMissing ==
    (Returned /\ call = "check_citation_matching") =>
        ((DoeBody \in SeqRange(paragraphs) /\ DoeRef \notin SeqRange(paragraphs))
            => <<Doe, Y2019>> \in SeqRange(results.missing_refs))

\* the (authors, year) pair under which a parsed entry is reported
ReportedAs(ref) == <<ref.authors, IF Truthy(ref.year) THEN ref.year ELSE << >>>>

\* C3: every entry the segmenter produced that no citation resolved to is
\* in uncited_refs, whether or not the parser found its authors or year.
C3_UncitedEntryIsReported ==
    (Returned /\ call = "check_citation_matching" /\ ref_section # << >>) =>
        \A j \in DOMAIN parsed_refs :
            ReportedAs(parsed_refs[j]) \notin cited_refs
                => ReportedAs(parsed_refs[j]) \in SeqRange(results.uncited_refs)

\* the normalized keys of a citation and of a reference
CiteKey(c) == <<extract_last_name_from_citation(c[1]), normalize_year(c[2])>>

CiteFirstKey(c) == <<FirstWord(extract_last_name_from_citation(c[1])), normalize_year(c[2])>>

FullKey(r) == <<normalize_author(r[1]), normalize_year(r[2])>>

FirstKey(r) == <<FirstWord(normalize_author(r[1])), normalize_year(r[2])>>

\* the references a citation with a year resolves to: those with its full
\* key, or else those whose full or first-author key is its first-author key
FullMatches(c, refs) == {r \in SeqRange(refs) : FullKey(r) = CiteKey(c)}

FirstMatches(c, refs) ==
    {r \in SeqRange(refs) : FullKey(r) = CiteFirstKey(c) \/ FirstKey(r) = CiteFirstKey(c)}

Resolution(c, refs) ==
    IF FullMatches(c, refs) # {} THEN FullMatches(c, refs) ELSE FirstMatches(c, refs)

\* C4: a citation with a year is missing exactly when neither its
\* (authors, year) is the full-author key of a reference nor its (first
\* author, year) the full-author or first-author key of one, and the
\* references it resolves to are cited; ('Smith & Jones', '2020') and
\* ('Smith et al.', '2020') both resolve to ('Smith, J., & Jones, K.', '2020').
C4_YearCitationResolves ==
    /\ pc = "match" =>
          \A j \in 1..(k - 1) :
              LET c == intext_citations[j]
              IN Truthy(c[2]) =>
                    /\ c \in SeqRange(missing_refs) <=> Resolution(c, reference_citations) = {}
                    /\ Resolution(c, reference_citations) \subseteq cited_refs
    /\ (Returned /\ call = "match_citations_to_references") =>
          /\ \A j \in DOMAIN intext_citations :
                LET c == intext_citations[j]
                IN Truthy(c[2]) =>
                      /\ c \in SeqRange(unique_missing)
                            <=> Resolution(c, reference_citations) = {}
                      /\ Resolution(c, reference_citations) \cap SeqRange(uncited_refs) = {}
          /\ <<SmithJones, Y2020>> \in SeqRange(reference_citations) =>
                /\ <<SmithAndJones, Y2020>> \notin SeqRange(unique_missing)
                /\ <<SmithEtAl, Y2020>> \notin SeqRange(unique_missing)
                /\ ({<<SmithAndJones, Y2020>>, <<SmithEtAl, Y2020>>}
                        \cap SeqRange(intext_citations) # {}
                      => <<SmithJones, Y2020>> \notin SeqRange(uncited_refs))

\* a first-author citation resolved and another citation went missing
C4_Witness ==
    /\ Returned /\ call = "match_citations_to_references"
    /\ <<SmithJones, Y2020>> \in SeqRange(reference_citations)
    /\ <<SmithEtAl, Y2020>> \in SeqRange(intext_citations)
    /\ <<SmithJones, Y2020>> \notin SeqRange(uncited_refs)
    /\ <<Doe, Y2019>> \in SeqRange(unique_missing)

\* C5: a citation without a year resolves to every reference whose first
\* author's last name is the citation's author, whatever the reference's
\* year: the citation is not missing and the reference is not uncited.
C5_YearlessCitationResolves ==
    (Returned /\ call = "match_citations_to_references") =>
        \A c \in SeqRange(intext_citations) : \A r \in SeqRange(reference_citations) :
            (c[2] = None /\ FirstKey(r)[1] = CiteKey(c)[1]) =>
                /\ c \notin SeqRange(unique_missing)
                /\ r \notin SeqRange(uncited_refs)

\* C6: no input makes extract_intext_citations or
\* match_citations_to_references raise.
C6_NoFatalCondition == pc # "raised"

\* no paragraph of the paper is a header
NoHeader(p) == \A j \in DOMAIN p : p[j] \notin Headers

\* C7: without a header, or with fewer than 2 lines in the cleaned
\* reference section, detect_citation_style returns ('UNKNOWN', 0); and no
\* confidence is a quotient by zero.
C7_HardFloor ==
    (Returned /\ call = "detect_citation_style") =>
        /\ confidence.den # 0
        /\ (NoHeader(paragraphs) \/ Len(ref_section) < 2) =>
              (citation_style = "UNKNOWN" /\ confidence.num = 0)

\* a paper with a header and a single reference line got ('UNKNOWN', 0)
C7_Witness ==
    /\ Returned /\ call = "detect_citation_style"
    /\ ~NoHeader(paragraphs)
    /\ Len(ref_section) = 1
    /\ citation_style = "UNKNOWN" /\ confidence.num = 0

\* C8: the style is APA, MLA or UNKNOWN and the confidence lies in 0..100;
\* for APA and MLA the confidence is the style's score over the sum of both
\* scores, times 100, and is more than 50; equal scores that are not zero
\* give ('UNKNOWN', 50).
C8_StyleAndConfidence ==
    (Returned /\ call = "detect_citation_style") =>
        /\ citation_style \in {"APA", "MLA", "UNKNOWN"}
        /\ confidence.den > 0
        /\ 0 <= confidence.num /\ confidence.num <= 100 * confidence.den
        /\ citation_style = "APA" =>
              /\ confidence.num * (score.APA + score.MLA) = score.APA * 100 * confidence.den
              /\ confidence.num > 50 * confidence.den
        /\ citation_style = "MLA" =>
              /\ confidence.num * (score.APA + score.MLA) = score.MLA * 100 * confidence.den
              /\ confidence.num > 50 * confidence.den
        /\ (score.APA = score.MLA /\ score.APA > 0) =>
              (citation_style = "UNKNOWN" /\ confidence.num = 50 * confidence.den)

\* equal scores that are not zero gave ('UNKNOWN', 50)
C8_Witness ==
    /\ Returned /\ call = "detect_citation_style"
    /\ score.APA = score.MLA /\ score.APA > 0
    /\ citation_style = "UNKNOWN" /\ confidence.num = 50 * confidence.den

\* the reference lines that match no APA shape signature
NoApaShape == {line \in StyleLines : LineScore(line).APA = 0}

\* the paper's header is 'Works Cited', its reference section has 2 lines
\* or more and the sampled lines match no APA shape
WorksCitedPaper ==
    /\ WorksCitedHeader \in SeqRange(paragraphs)
    /\ ReferencesHeader \notin SeqRange(paragraphs)
    /\ Len(ref_section) >= 2
    /\ \A j \in 1..Min(5, Len(ref_section)) : ref_section[j] \in NoApaShape

\* C9: under a 'Works Cited' header, with 2 reference lines or more whose
\* sampled lines match MLA shapes only, the style is MLA with a confidence
\* above 50, whatever citations the body holds.
C9_WorksCitedIsMla ==
    (Returned /\ call = "detect_citation_style" /\ WorksCitedPaper) =>
        (citation_style = "MLA" /\ confidence.num > 50 * confidence.den)

\* such a paper with an APA citation in its body was found MLA
C9_Witness ==
    /\ Returned /\ call = "detect_citation_style" /\ WorksCitedPaper
    /\ DoeBody \in SeqRange(paragraphs)
    /\ citation_style = "MLA"

\* C10: with the style 'UNKNOWN', and with every style but 'MLA',
\* split_references is split_apa_references and parse_reference is
\* parse_apa_reference; 'MLA' alone selects the MLA variants.
C10_UnknownFallsBackToApa ==
    call = "parse_all_references" =>
        /\ pc \in {"parse", "done"} =>
              individual_refs = IF citation_style = "MLA"
                                THEN split_mla_references(ref_section)
                                ELSE split_apa_references(ref_section)
        /\ pc = "done" =>
              \A j \in DOMAIN individual_refs :
                  parsed_refs[j] = WithRefNum(IF citation_style = "MLA"
                                              THEN parse_mla_reference(individual_refs[j])
                                              ELSE parse_apa_reference(individual_refs[j]),
                                              numbered_refs[j].ref_num)

\* a reference text the two segmenters split differently, and an entry the
\* two parsers read differently, went the APA way under 'UNKNOWN'
C10_Witness ==
    /\ Returned /\ call = "parse_all_references"
    /\ citation_style = "UNKNOWN"
    /\ individual_refs # << >>
    /\ individual_refs = split_apa_references(ref_section)
    /\ individual_refs # split_mla_references(ref_section)
    /\ parsed_refs[1] # WithRefNum(parse_mla_reference(individual_refs[1]), 1)


\* the extractor has returned its list to check_citation_matching
Extracted == call = "check_citation_matching" /\ pc \in {"lookup", "match", "report"}

\* C11: the verdict of the style detector selects the strategy of the
\* citation extractor as it does for the segmenter and the parser: under
\* the verdict UNKNOWN the citations extracted from the body are those of
\* the default (APA) strategy, so '(Doe, 2019)' and 'Smith (2020)' are
\* extracted.
C11_UnknownExtractsAsApa ==
    (Extracted /\ citation_style = "UNKNOWN") =>
        intext_citations = ApaCitations(Join(paper_body, Space1))

\* no element of q occurs at two positions
NoRepeats(q) == \A i, j \in DOMAIN q : q[i] = q[j] => i = j

\* C12: the two lists match_citations_to_references returns hold no pair
\* twice, also when the citation list or the reference list repeats a pair.
C12_ReturnedListsHaveNoRepeats ==
    (Returned /\ call = "match_citations_to_references") =>
        NoRepeats(uncited_refs) /\ NoRepeats(unique_missing)

\* where the author of citation c first stands in the body (0: nowhere)
StartOf(text, c) == Find(text, c[1])

InDocumentOrder(text, citations) ==
    \A i, j \in DOMAIN citations :
        i < j => StartOf(text, citations[i]) <= StartOf(text, citations[j])

\* C13: the list extract_intext_citations returns is in the order in which
\* the citations start in the body, whatever shape matched each of them,
\* under both styles.
C13_CitationsInDocumentOrder ==
    (Extracted /\ citation_style \in {"APA", "MLA"}) =>
        InDocumentOrder(Join(paper_body, Space1), intext_citations)

\* C14: a second run on the same paragraphs extracts the same citations in
\* the same order, whatever the order in which it visits the set of
\* reference last names.
C14_EveryRunExtractsTheSame ==
    Extracted =>
        \A order \in Orders(reference_last_names) :
            extract_intext_citations(paper_body, citation_style, order).citations
                = intext_citations

\* C16: the ref_num values split_references_from_results assigns are
\* 1, 2, ..., n in the order of the entries, one per entry the segmenter
\* kept, and parse_all_references returns the parsed entries in that order
\* under the same numbers.
C16_RefNumsCountTheEntries ==
    call = "parse_all_references" =>
        /\ pc \in {"parse", "done"} =>
              /\ Len(numbered_refs) = Len(individual_refs)
              /\ \A j \in DOMAIN numbered_refs :
                    numbered_refs[j].ref_num = j /\ numbered_refs[j].text = individual_refs[j]
        /\ pc = "done" =>
              /\ Len(parsed_refs) = Len(numbered_refs)
              /\ \A j \in DOMAIN parsed_refs :
                    /\ parsed_refs[j].ref_num = j
                    /\ parsed_refs[j].raw = numbered_refs[j].text

\* two entries were numbered and parsed after a too short one was dropped
C16_Witness ==
    /\ Returned /\ call = "parse_all_references"
    /\ ref_section # << >> /\ ref_section[1] = ShortEntry
    /\ Len(individual_refs) < Len(ref_section)
    /\ Len(parsed_refs) >= 1
    /\ parsed_refs[Len(parsed_refs)].ref_num = Len(individual_refs)

\* the indicators of the claim, read off an entry: a volume(issue) marker,
\* a DOI, and a URL that is no DOI link
HasVolumeIssue(text) ==
    Found(Cat(<<Plus(Chr(Digit)), Chr({"("}), Plus(Chr(Digit)), Chr({")"})>>), text)

HasDoi(text) == Contains(StrLower(text), <<"d","o","i",".","o","r","g","/">>)

HasOtherUrl(text) == Contains(StrLower(text), <<"h","t","t","p">>) /\ ~HasDoi(text)

RefTypes == {"journal", "book", "chapter", "website", "other"}

\* C17: under both styles ref_type is one of journal, book, chapter,
\* website, other, and the journal indicators are tested first: an entry
\* with a volume(issue) marker and a URL that is no DOI is a journal, and so
\* is an entry that carries a DOI.
C17_JournalIndicatorsFirst ==
    (Returned /\ call = "parse_all_references") =>
        \A j \in DOMAIN parsed_refs :
            /\ parsed_refs[j].ref_type \in RefTypes
            /\ (HasVolumeIssue(parsed_refs[j].raw) /\ HasOtherUrl(parsed_refs[j].raw))
                  => parsed_refs[j].ref_type = "journal"
            /\ HasDoi(parsed_refs[j].raw) => parsed_refs[j].ref_type = "journal"

\* C18: normalize_author is idempotent: normalizing its own result gives
\* that result again, also for the strings whose words are 'and', 'et' or
\* 'al'.
C18_NormalizeAuthorIdempotent ==
    (Returned /\ call = "normalize_author") => normalized = author_string

\* the well-formed APA entries 'Author, I. N. (YYYY). Title. Source.' among
\* the lines, each longer than 20 characters
ApaEntryLines == {SmithRef, DoeRef, DeSilvaRef}

\* a stream of well-formed entries: each starts on a line of its own and
\* goes on over the continuation lines that follow it
WellFormedStream(text) ==
    /\ text # << >>
    /\ text[1] \in ApaEntryLines
    /\ \A i \in DOMAIN text : text[i] \in ApaEntryLines \cup {ContinuationLine}

\* the entries of a well-formed stream, each with its continuation lines
RECURSIVE EntriesOf(_, _, _)
EntriesOf(text, i, entries) ==
    IF i > Len(text) THEN entries
    ELSE IF text[i] \in ApaEntryLines
    THEN EntriesOf(text, i + 1, Append(entries, text[i]))
    ELSE EntriesOf(text, i + 1,
                   [entries EXCEPT ![Len(entries)] = @ \o Space1 \o text[i]])

\* C15: split_apa_references on a stream of N well-formed APA entries
\* returns N entries, the i-th of them the i-th entry of the stream.
C15_WellFormedEntriesSplit ==
    (Returned /\ call = "split_apa_references" /\ WellFormedStream(references_text)) =>
        references = EntriesOf(references_text, 1, << >>)

\* the line the loop of a segmenter is at, stripped
ThisLine == Strip(references_text[line_no])

\* the line has one of the shapes of a new entry: a leading quoted title, a
\* 'LastName, FirstName' prefix, or a capitalized title
HasNewEntryShape(line) == MlaStartsNew(line, TRUE)

\* the last line of the open entry looks complete
OpenEntryLooksComplete == PrevLooksComplete(current_ref[Len(current_ref)])

\* the step closes the open entry and opens a new one with the whole line
ClosesWith(line) == current_ref # << >> /\ current_ref' = <<line>>

\* C19: in split_mla_references a line closes the open entry and starts a
\* new one, mid-line splits aside, only if it has the shape of a new entry
\* and the last line of the open entry looks complete; a line of such a
\* shape that arrives while the open entry does not look complete is
\* appended to it.
C19_NewEntryNeedsCompleteEntry ==
    [][SplitMlaLine =>
          /\ ClosesWith(ThisLine) =>
                HasNewEntryShape(ThisLine) /\ OpenEntryLooksComplete
          /\ (/\ current_ref # << >>
              /\ MlaSplitPoint(ThisLine) = -1
              /\ HasNewEntryShape(ThisLine)
              /\ ~OpenEntryLooksComplete) =>
                current_ref' = Append(current_ref, ThisLine)]_vars

\* the split points of the mid-line candidates of the line
CandidatePoints(r) == SeqRange(Points(ReFindIter(r, ThisLine)))

\* the text before the candidate at p ends with a middle initial ' X.'
PrecededByInitial(line, p) == Found(MiddleInitialRe, Slice(line, 1, p))

\* the step splits the line at p: the text from p on opens the next entry
SplitsAt(p) == current_ref' = <<AfterSplit(ThisLine, p)>>

\* the text before p ends the earlier entry
EndsEarlierEntry(p) ==
    references' = Append(references,
                         Join(Append(current_ref, BeforeSplit(ThisLine, p)), Space1))

\* C20: neither segmenter splits a line at a candidate with 40 characters
\* or fewer before it; split_mla_references never splits at a candidate that
\* follows a middle initial; split_apa_references splits only where a
\* parenthesized year stands within the 100 characters after the split
\* point; and a split ends the earlier entry with the text before it and
\* opens the next with the text after it.
C20_MidLineSplitConditions ==
    [][/\ SplitMlaLine =>
             \A p \in CandidatePoints(MlaMidLineRe) :
                 SplitsAt(p) =>
                     /\ Len(BeforeSplit(ThisLine, p)) > 40
                     /\ ~PrecededByInitial(ThisLine, p)
                     /\ EndsEarlierEntry(p)
       /\ SplitApaLine =>
             \A p \in CandidatePoints(ApaMidLineRe) :
                 SplitsAt(p) =>
                     /\ Len(BeforeSplit(ThisLine, p)) > 40
                     /\ Found(ParenYearRe,
                              Slice(AfterSplit(ThisLine, p), 1,
                                    Min(100, Len(AfterSplit(ThisLine, p)))))
                     /\ EndsEarlierEntry(p)]_vars

\* the entry still open, joined
OpenEntry == Join(current_ref, Space1)

IsPageHeader == ReMatch(MlaPageHeaderRe, ThisLine).ok

\* the line of this step opens with a blank or a tab
IsIndented ==
    /\ references_text[line_no] # << >>
    /\ references_text[line_no][1] \in {" ", "\t"}

TimesIn(q, c) == Cardinality({i \in DOMAIN q : q[i] = c})

\* in how many of the three lists c stands
ShapesFinding(c, single, multi, narrative) ==
    Cardinality({s \in 1..3 : c \in SeqRange(<<single, multi, narrative>>[s])})

\* every citation that more than one of the three shapes finds in text
\* stands once in citations
FoundTwiceStandsOnce(citations, text) ==
    \A c \in SeqRange(citations) :
        ShapesFinding(c, MatchPairs(ReFindIter(ApaParenPattern, text), text, TRUE),
                      MultiGroups(ReFindIter(MultiParenPattern, text), text),
                      NarrativePairs(ReFindIter(ApaNarrativePattern, text), text)) > 1
            => TimesIn(citations, c) = 1

\* C23: under the style APA a pair (author, year) that more than one of the
\* three citation shapes finds (single parenthesis, parenthesis with
\* semicolons, narrative) stands once in the list extract_intext_citations
\* returns.
C23_PairOfTwoShapesStandsOnce ==
    (Extracted /\ citation_style = "APA") =>
        FoundTwiceStandsOnce(intext_citations, Join(paper_body, Space1))

\* the entry opens with a quotation mark, straight or curly, as line 1028
\* tests it
OpensWithQuote(ref_text) == ref_text # << >> /\ ref_text[1] \in {"\"", LDQ}

\* C24: parse_mla_reference returns the empty string as authors for every
\* entry that opens with a quotation mark, straight or curly: no part of
\* the title is returned as authors.
C24_TitleFirstHasNoAuthors ==
    (Returned /\ call = "parse_all_references" /\ citation_style = "MLA") =>
        \A j \in DOMAIN parsed_refs :
            OpensWithQuote(parsed_refs[j].raw) => parsed_refs[j].authors = << >>

\* the reference r is by the author the citation c names: the last names of
\* r, or the first of them, are those of c
ByCitedAuthor(c, r) ==
    \/ FullKey(r)[1] = CiteKey(c)[1]
    \/ FirstKey(r)[1] = CiteKey(c)[1]

\* C25: a citation without a year marks as cited every reference whose
\* normalized authors, or whose first author, are the citation's author,
\* under whatever lookup key the reference is stored: two references by the
\* same first author with different years both leave uncited_refs.
C25_YearlessCitesUnderEveryKey ==
    (Returned /\ call = "match_citations_to_references") =>
        \A c \in SeqRange(intext_citations) :
            c[2] = None =>
                \A r \in SeqRange(reference_citations) :
                    ByCitedAuthor(c, r) =>
                        r \in cited_refs /\ r \notin SeqRange(uncited_refs)

\* lines 629-642: the parenthetical citations of the MLA branch
MlaParenthetical(text) ==
    WithNew(MatchPairs(ReFindIter(MlaParenWithPage, text), text, FALSE),
            MatchPairs(ReFindIter(MlaParenNoPage, text), text, FALSE), TRUE)

\* the citations the narrative scan of lines 645-665 added
NarrativeAdded(citations, parenthetical) ==
    {c \in SeqRange(citations) : c \notin SeqRange(parenthetical)}

\* C26: under the style MLA every citation the narrative scan derives from
\* the last names of the reference list resolves against that list: after
\* check_citation_matching none of them is in missing_refs, with or without
\* a nearby year attached.
C26_NarrativeMentionsResolve ==
    (Returned /\ call = "check_citation_matching" /\ citation_style = "MLA"
              /\ paper_body # None) =>
        \A c \in NarrativeAdded(intext_citations,
                                MlaParenthetical(Join(paper_body, Space1))) :
            c \notin SeqRange(results.missing_refs)

\* the words of the lines of parts, in order
WordsOf(parts) == Words(Join(parts, Space1))

\* a step that read the words in all closed at most one entry, the first n
\* words, which it appended to the entries or discarded as too short, and
\* left the other words, those in open, open
ConservesWords(before, after, open, all) ==
    \E n \in {Len(all) - Len(open)} :
        /\ n >= 0
        /\ open = SubSeq(all, n + 1, Len(all))
        /\ \/ n = 0 /\ after = before
           \/ /\ n > 0
              /\ Len(Join(SubSeq(all, 1, n), Space1)) <= 20
              /\ after = before
           \/ /\ n > 0
              /\ Len(after) = Len(before) + 1
              /\ SubSeq(after, 1, Len(before)) = before
              /\ Words(after[Len(after)]) = SubSeq(all, 1, n)

\* the same of the text itself: the entry closed and the lines left open,
\* joined by one blank, are the text all
ConservesText(before, after, open, all) ==
    \/ after = before /\ Join(open, Space1) = all
    \/ \E p \in 1..Len(all) :
          /\ all[p] = " "
          /\ Join(open, Space1) = SubSeq(all, p + 1, Len(all))
          /\ \/ after = Append(before, SubSeq(all, 1, p - 1))
             \/ p - 1 <= 20 /\ after = before

\* the line of this step is blank or, for split_mla_references, a page header
IsSuppressed(line) ==
    \/ line = << >>
    \/ call = "split_mla_references" /\ ReMatch(MlaPageHeaderRe, line).ok

Alive == {t \in DOMAIN threads : threads[t].at # "ended"}

\* the calls of verification_complete that wait in the event loop
Completions == {j \in DOMAIN events : events[j] = "verification_complete"}

\* the runs not yet complete: a worker has not ended, or the call of
\* verification_complete it scheduled has not been executed
Unfinished == Cardinality(Alive) + Cardinality(Completions)

\* C28: the window runs at most one worker at a time: from the call of
\* run_verification that starts a worker to the execution of the
\* verification_complete that worker scheduled, is_running is true, and a
\* further call of run_verification starts no thread and clears no results.
C28_OneWorkerAtATime ==
    /\ [](Cardinality(Alive) <= 1 /\ (Unfinished > 0 => is_running))
    /\ [][(RunVerification /\ is_running) =>
             (threads' = threads /\ results_widgets' = results_widgets)]_vars

\* run_verification has been called again while the worker is in the pipeline
C28_Witness ==
    /\ call = "mainloop" /\ pc = "run_verification"
    /\ is_running
    /\ Len(threads) = 1 /\ threads[1].at = "pipeline"

\* the three ways out of the try block of verification_worker
Exits == {"normal", "no_papers", "exception"}

\* a worker has left the try block by exit e
LeftBy(e) == \E t \in DOMAIN threads : threads[t].exit = e

Reenabled == ~is_running /\ run_btn = "normal"

\* C29: every worker that was started schedules verification_complete
\* once, whichever of the three ways it leaves by (the end of the steps,
\* the return when no papers are found, an exception): while a run is
\* under way exactly one worker or one scheduled call is outstanding, and
\* with the event loop running is_running returns to false and the run
\* button to normal.
C29_WorkerLeadsToCompletion ==
    /\ [](Unfinished <= 1 /\ (is_running <=> Unfinished = 1))
    /\ [](is_running => <>Reenabled)
    /\ \A e \in Exits : [](LeftBy(e) => <>Reenabled)

\* workers have left by all three ways and the button is enabled again
C29_Witness ==
    /\ call = "mainloop"
    /\ \A e \in Exits : LeftBy(e)
    /\ Alive = {} /\ events = << >>
    /\ Reenabled

\* check_citation_matching has parsed the entries of the paper
HasParsed ==
    /\ call = "check_citation_matching"
    /\ \/ pc \in {"extract", "lookup", "match", "report", "raised"}
       \/ pc = "done" /\ ref_section # << >>

\* the entries parsed with a year
WithYear(parsed) == {j \in DOMAIN parsed : Truthy(parsed[j].year)}

\* C30: an entry parse_apa_reference parsed has authors only if it has a
\* year, and an entry without a year takes no part in the matching: every
\* reference pair that is matched, cited or uncited, is the pair of an
\* entry with a year.
C30_ApaAuthorsNeedYear ==
    (HasParsed /\ citation_style # "MLA") =>
        /\ \A j \in DOMAIN parsed_refs :
              Truthy(parsed_refs[j].authors) => Truthy(parsed_refs[j].year)
        /\ (Returned \/ pc = "report") =>
              \A pair \in SeqRange(reference_citations) \cup cited_refs
                            \cup SeqRange(uncited_refs) :
                  \E j \in WithYear(parsed_refs) : pair = ReportedAs(parsed_refs[j])

\* an entry without a year was parsed as APA next to one with a year, and
\* the paper's result holds no pair of it
C30_Witness ==
    /\ Returned /\ HasParsed /\ citation_style = "APA"
    /\ \E j \in DOMAIN parsed_refs :
          /\ parsed_refs[j].raw = WhoRef
          /\ ~Truthy(parsed_refs[j].year) /\ ~Truthy(parsed_refs[j].authors)
    /\ WithYear(parsed_refs) # {}
    /\ results.total_references = Cardinality(WithYear(parsed_refs))
====
